---------------------------- MODULE Spec2Model ----------------------------
(***************************************************************************)
(* Verification model of the EXPOsan process-simulation scripts:           *)
(*   - exposan/htl/system_PSA.py: the module-level script that wires the   *)
(*     sys_PSA flowsheet, attaches the LCA/TEA overlay, registers the      *)
(*     uncertain parameters and evaluates the Monte Carlo samples;         *)
(*   - exposan/co2_sorbent/systems.py and exposan/metab/systems.py: the    *)
(*     flowsheet builders and the global registries they write;            *)
(*   - exposan/htl/analyses/geospatial_analysis.py: the notebook cells     *)
(*     that merge facility tables and loop over facilities.                *)
(*   - exposan/cas/__init__.py: the loader of the components and of the   *)
(*     system of the module.                                               *)
(*   - exposan/interface/system.py: the script that joins the bsm1       *)
(*     system to an anaerobic digester through two junctions.            *)
(* Each program has its own specifications over its own variables; the     *)
(* variables of the other programs stay at their initial value.            *)
(***************************************************************************)
EXTENDS Integers, Sequences, FiniteSets, TLC

VARIABLES
  \* ---- system_PSA.py ----
  pc,         \* position of the script
  units,      \* aliases of the units constructed so far, in construction order
  source,     \* stream ID -> set of outlet ports <<alias, index>> that produce it
  sink,       \* stream ID -> set of inlet ports <<alias, index>> wired to it
  attrs,      \* attribute -> value (unit attributes, stream prices, CFs, ...)
  overlay,    \* sequence of overlay objects attached (impact items, LCA, TEA)
  aliases,    \* set of aliases registered with register_alias
  path,       \* simulation path of sys_PSA (<<>> before qs.System is called)
  simCount,   \* number of completed simulations of sys_PSA
  nparams,    \* number of parameters registered on the model
  loaded,     \* number of sample rows loaded into the model
  doneRows,   \* sample rows already evaluated, in evaluation order
  row,        \* sample row being evaluated (0: none)
  order,      \* order in which the setters of the current row run
  pos,        \* number of setters of the current row already applied
  rowSim,     \* TRUE once the current row has been simulated
  evalCount,  \* number of metric evaluations (each reads overlay values)
  nmetrics,   \* number of metrics registered on the model
  flows,      \* quantity -> value left by the last simulation of sys_PSA
  table,      \* model.table: its column labels and the metric values of each row
  sheets,     \* sheet name -> what organize_results wrote to it
  \* ---- flowsheet builders (co2_sorbent, metab) ----
  fpc,        \* position inside the running builder call (0: no call runs)
  fcall,      \* name and arguments of the running builder call
  fsObjs,     \* flowsheet objects created so far, each with its registries
  flowsheets, \* qs.main_flowsheet.flowsheet: flowsheet ID -> object index
  mainfs,     \* object index of the main flowsheet (0: the default flowsheet)
  lcaItems,   \* global impact-item registry: item key -> number of registrations
  thermo,     \* ambient component set
  loadedCmps, \* modules whose _components_loaded flag is set
  ncalls,     \* number of builder calls started
  lastRet,    \* what the last finished builder call returned
  \* ---- geospatial_analysis.py ----
  cell,       \* the notebook cell that runs or ran last ("": none yet)
  gpc,        \* position inside that cell ("done": it ended)
  left,       \* keys of the left table / of the facilities the cell loops over
  right,      \* right table of the cell's merge (rows [key, val])
  merged,     \* table the cell builds (the merge result / the loop's result rows)
  gi,         \* loop cursor of the cell
  gfail,      \* what stopped the cell ("" while it runs or ends normally)
  exported,   \* rows written by the last to_excel of the cell
  \* ---- cas/__init__.py ----
  components, \* the component set bound to `components`: 0 unbound, n the n-th one created
  sys,        \* the component set the system bound to `sys` was built on (0: unbound)
  _components_loaded,
  _system_loaded,
  simulated,  \* <<sys, components>> at the last sys.simulate() (<<0, 0>>: none yet)
  casCalls,   \* number of calls made to the functions of the module
  \* ---- interface/system.py ----
  ipc,        \* line of the statement of the script that runs next
  saved,      \* the component sets bound to thermo_asm1 and thermo_adm1
  created,    \* unit ID -> the component set that was ambient when it was constructed
  isink,      \* stream -> the units it is an inlet of
  A1_ins,     \* the inlet streams of A1, in order
  ipath,      \* path of the combined system (<<>> before System is called)
  bsm1_units, \* bsm1_sys.units
  \* ---- geospatial_analysis.py, names that outlive a cell ----
  refineries_left_id, \* the global of that name (not bound until line 502 has run)
  \* ---- cas/__init__.py, module attribute access ----
  cas_attr    \* outcome of the last access to a name the module does not define

varsPSA == <<pc, units, source, sink, attrs, overlay, aliases, path, simCount,
             nparams, loaded, doneRows, row, order, pos, rowSim, evalCount,
             nmetrics, flows, table, sheets>>
varsFS  == <<fpc, fcall, fsObjs, flowsheets, mainfs, lcaItems, thermo,
             loadedCmps, ncalls, lastRet>>
varsGeo == <<cell, gpc, left, right, merged, gi, gfail, exported>>
varsCAS == <<components, sys, _components_loaded, _system_loaded, simulated, casCalls>>
varsInt == <<ipc, saved, created, isink, A1_ins, ipath, bsm1_units>>
varsCap == <<refineries_left_id>>
varsAttr == <<cas_attr>>
vars    == <<varsPSA, varsFS, varsGeo, varsCAS, varsInt, varsCap, varsAttr>>

Range(s) == {s[i] : i \in 1..Len(s)}

IndexOf(s, x) == IF x \in Range(s) THEN CHOOSE i \in 1..Len(s) : s[i] = x ELSE 0

RECURSIVE SumOver(_, _)
SumOver(f, S) ==
  IF S = {} THEN 0
  ELSE LET x == CHOOSE y \in S : TRUE IN f[x] + SumOver(f, S \ {x})

(***************************************************************************)
(* system_PSA.py: unit wiring (lines 64-301)                               *)
(***************************************************************************)
\* an inlet given as `X-k` (outlet k of unit X) or as a stream / stream ID
O(alias, k) == <<"o", alias, k>>
S(id)       == <<"s", id, 0>>

\* MemDis wired to the acid stream that AcidEx already consumes
MemDis_ins_shared == <<O("F1", 1), O("SP1", 0), S("NaOH"), S("Membrane_in")>>

\* MemDis = su.MembraneDistillation('A260', ins=(F1-1, SP1-1, 'NaOH', 'Membrane_in'), ...)
MemDis_ins == <<O("F1", 1), O("SP1", 1), S("NaOH"), S("Membrane_in")>>

\* one record per unit, in the order the script constructs them; `priced` are the
\* ports whose stream gets a price right after the construction
Wiring ==
  <<
    [alias |-> "WWTP", ID |-> "S000",
     ins |-> <<S("raw_wastewater")>>,
     outs |-> <<"sludge", "treated_water">>, priced |-> {}],
    [alias |-> "SluC", ID |-> "A000",
     ins |-> <<O("WWTP", 0)>>,
     outs |-> <<"supernatant", "compressed_sludge">>, priced |-> {}],
    [alias |-> "P1", ID |-> "A100",
     ins |-> <<O("SluC", 1)>>,
     outs |-> <<"press_sludge">>, priced |-> {}],
    [alias |-> "H1", ID |-> "A110",
     ins |-> <<O("P1", 0)>>,
     outs |-> <<"heated_sludge">>, priced |-> {}],
    [alias |-> "HTL", ID |-> "A120",
     ins |-> <<O("H1", 0)>>,
     outs |-> <<"biochar", "HTL_aqueous", "biocrude", "offgas_HTL">>, priced |-> {}],
    [alias |-> "H2SO4_Tank", ID |-> "T200",
     ins |-> <<S("H2SO4")>>,
     outs |-> <<"H2SO4_out">>, priced |-> {<<"ins", 0>>}],
    [alias |-> "SP1", ID |-> "S200",
     ins |-> <<O("H2SO4_Tank", 0)>>,
     outs |-> <<"H2SO4_P", "H2SO4_N">>, priced |-> {}],
    [alias |-> "AcidEx", ID |-> "A200",
     ins |-> <<O("HTL", 0), O("SP1", 0)>>,
     outs |-> <<"residual", "extracted">>, priced |-> {}],
    [alias |-> "M1", ID |-> "A210",
     ins |-> <<O("HTL", 1), O("AcidEx", 1)>>,
     outs |-> <<"mixture">>, priced |-> {}],
    [alias |-> "StruPre", ID |-> "A220",
     ins |-> <<O("M1", 0), S("MgCl2"), S("NH4Cl"), S("MgO")>>,
     outs |-> <<"struvite", "CHG_feed">>, priced |-> {<<"ins", 1>>, <<"ins", 2>>, <<"ins", 3>>, <<"outs", 0>>}],
    [alias |-> "CHG", ID |-> "A230",
     ins |-> <<O("StruPre", 1), S("7.8%_Ru/C")>>,
     outs |-> <<"CHG_out", "7.8%_Ru/C_out">>, priced |-> {<<"ins", 1>>}],
    [alias |-> "V1", ID |-> "A240",
     ins |-> <<O("CHG", 0)>>,
     outs |-> <<"depressed_cooled_CHG">>, priced |-> {}],
    [alias |-> "F1", ID |-> "A250",
     ins |-> <<O("V1", 0)>>,
     outs |-> <<"CHG_fuel_gas", "N_riched_aqueous">>, priced |-> {}],
    [alias |-> "MemDis", ID |-> "A260",
     ins |-> MemDis_ins,
     outs |-> <<"ammonium_sulfate", "MemDis_ww", "Membrane_out", "solution">>, priced |-> {<<"ins", 2>>, <<"outs", 0>>}],
    [alias |-> "P2", ID |-> "A300",
     ins |-> <<O("HTL", 2)>>,
     outs |-> <<"press_biocrude">>, priced |-> {}],
    [alias |-> "RSP1", ID |-> "S300",
     ins |-> <<S("H2")>>,
     outs |-> <<"HT_H2", "HC_H2">>, priced |-> {<<"ins", 0>>}],
    [alias |-> "HT", ID |-> "A310",
     ins |-> <<O("P2", 0), O("RSP1", 0), S("CoMo_alumina_HT")>>,
     outs |-> <<"HTout", "CoMo_alumina_HT_out">>, priced |-> {<<"ins", 2>>}],
    [alias |-> "V2", ID |-> "A320",
     ins |-> <<O("HT", 0)>>,
     outs |-> <<"depressed_HT">>, priced |-> {}],
    [alias |-> "H2", ID |-> "A330",
     ins |-> <<O("V2", 0)>>,
     outs |-> <<"cooled_HT">>, priced |-> {}],
    [alias |-> "F2", ID |-> "A340",
     ins |-> <<O("H2", 0)>>,
     outs |-> <<"HT_fuel_gas", "HT_aqueous">>, priced |-> {}],
    [alias |-> "V3", ID |-> "A350",
     ins |-> <<O("F2", 1)>>,
     outs |-> <<"depressed_flash_effluent">>, priced |-> {}],
    [alias |-> "SP2", ID |-> "S310",
     ins |-> <<O("V3", 0)>>,
     outs |-> <<"HT_ww", "HT_oil">>, priced |-> {}],
    [alias |-> "H3", ID |-> "A360",
     ins |-> <<O("SP2", 1)>>,
     outs |-> <<"heated_oil">>, priced |-> {}],
    [alias |-> "D1", ID |-> "A370",
     ins |-> <<O("H3", 0)>>,
     outs |-> <<"HT_light", "HT_heavy">>, priced |-> {}],
    [alias |-> "D2", ID |-> "A380",
     ins |-> <<O("D1", 1)>>,
     outs |-> <<"HT_Gasoline", "HT_other_oil">>, priced |-> {}],
    [alias |-> "D3", ID |-> "A390",
     ins |-> <<O("D2", 1)>>,
     outs |-> <<"HT_Diesel", "HT_heavy_oil">>, priced |-> {}],
    [alias |-> "P3", ID |-> "A400",
     ins |-> <<O("D3", 1)>>,
     outs |-> <<"press_heavy_oil">>, priced |-> {}],
    [alias |-> "HC", ID |-> "A410",
     ins |-> <<O("P3", 0), O("RSP1", 1), S("CoMo_alumina_HC")>>,
     outs |-> <<"HC_out", "CoMo_alumina_HC_out">>, priced |-> {<<"ins", 2>>}],
    [alias |-> "H4", ID |-> "A420",
     ins |-> <<O("HC", 0)>>,
     outs |-> <<"cooled_HC">>, priced |-> {}],
    [alias |-> "V4", ID |-> "A430",
     ins |-> <<O("H4", 0)>>,
     outs |-> <<"cooled_depressed_HC">>, priced |-> {}],
    [alias |-> "F3", ID |-> "A440",
     ins |-> <<O("V4", 0)>>,
     outs |-> <<"HC_fuel_gas", "HC_aqueous">>, priced |-> {}],
    [alias |-> "D4", ID |-> "A450",
     ins |-> <<O("F3", 1)>>,
     outs |-> <<"HC_Gasoline", "HC_Diesel">>, priced |-> {}],
    [alias |-> "GasolineMixer", ID |-> "S500",
     ins |-> <<O("D2", 0), O("D4", 0)>>,
     outs |-> <<"mixed_gasoline">>, priced |-> {}],
    [alias |-> "DieselMixer", ID |-> "S510",
     ins |-> <<O("D3", 0), O("D4", 1)>>,
     outs |-> <<"mixed_diesel">>, priced |-> {}],
    [alias |-> "H5", ID |-> "A500",
     ins |-> <<O("GasolineMixer", 0)>>,
     outs |-> <<"cooled_gasoline">>, priced |-> {}],
    [alias |-> "H6", ID |-> "A510",
     ins |-> <<O("DieselMixer", 0)>>,
     outs |-> <<"cooled_diesel">>, priced |-> {}],
    [alias |-> "PC1", ID |-> "S520",
     ins |-> <<O("H5", 0)>>,
     outs |-> <<"cooled_gasoline_liquid">>, priced |-> {}],
    [alias |-> "PC2", ID |-> "S530",
     ins |-> <<O("H6", 0)>>,
     outs |-> <<"cooled_diesel_liquid">>, priced |-> {}],
    [alias |-> "PC3", ID |-> "S540",
     ins |-> <<O("CHG", 1)>>,
     outs |-> <<"CHG_catalyst_out">>, priced |-> {}],
    [alias |-> "PC4", ID |-> "S550",
     ins |-> <<O("HT", 1)>>,
     outs |-> <<"HT_catalyst_out">>, priced |-> {}],
    [alias |-> "PC5", ID |-> "S560",
     ins |-> <<O("HC", 1)>>,
     outs |-> <<"HC_catalyst_out">>, priced |-> {}],
    [alias |-> "GasolineTank", ID |-> "T500",
     ins |-> <<O("PC1", 0)>>,
     outs |-> <<"gasoline">>, priced |-> {}],
    [alias |-> "DieselTank", ID |-> "T510",
     ins |-> <<O("PC2", 0)>>,
     outs |-> <<"diesel">>, priced |-> {}],
    [alias |-> "FuelMixer", ID |-> "S570",
     ins |-> <<O("GasolineTank", 0), O("DieselTank", 0)>>,
     outs |-> <<"fuel">>, priced |-> {}],
    [alias |-> "GasMixer", ID |-> "S580",
     ins |-> <<O("HTL", 3), O("F1", 0), O("F2", 0), O("D1", 0), O("F3", 0)>>,
     outs |-> <<"fuel_gas">>, priced |-> {}],
    [alias |-> "WWmixer", ID |-> "S590",
     ins |-> <<O("SluC", 0), O("MemDis", 1), O("SP2", 0)>>,
     outs |-> <<"wastewater">>, priced |-> {}],
    [alias |-> "HXN", ID |-> "HXN",
     ins |-> <<>>,
     outs |-> <<>>, priced |-> {}],
    [alias |-> "CHP", ID |-> "CHP",
     ins |-> <<O("GasMixer", 0), S("natural_gas"), S("air")>>,
     outs |-> <<"emission", "solid_ash">>, priced |-> {<<"ins", 1>>}]
  >>

NUnits == Len(Wiring)

UnitIndex(alias) == CHOOSE k \in 1..NUnits : Wiring[k].alias = alias

\* `X.outs[k]` and `X.ins[k]` resolved to stream IDs (Python indices, from 0)
OutS(alias, k) == Wiring[UnitIndex(alias)].outs[k + 1]

RefStream(r) == IF r[1] = "o" THEN OutS(r[2], r[3]) ELSE r[2]

InS(alias, k) == RefStream(Wiring[UnitIndex(alias)].ins[k + 1])

InletStreams(k)  == {RefStream(Wiring[k].ins[i]) : i \in 1..Len(Wiring[k].ins)}

OutletStreams(k) == Range(Wiring[k].outs)

Streams == UNION {InletStreams(k) \cup OutletStreams(k) : k \in 1..NUnits}

\* units an `X-k` inlet of unit k refers to: they must exist when k is constructed
ReferredUnits(k) ==
  {Wiring[k].ins[i][2] : i \in {j \in 1..Len(Wiring[k].ins) : Wiring[k].ins[j][1] = "o"}}

(***************************************************************************)
(* system_PSA.py: stream impact items, system, LCA, TEA (lines 303-500)    *)
(***************************************************************************)
Indicators ==
  <<"Acidification", "Ecotoxicity", "Eutrophication", "GlobalWarming", "OzoneDepletion",
    "PhotochemicalOxidation", "Carcinogenics", "NonCarcinogenics", "RespiratoryEffects">>

\* StreamImpactItem(ID, linked_stream): the items created by the script, in order;
\* `linked` is the ID of the stream at `port`
StreamImpactItems ==
  <<[ID |-> "RO_item",           unit |-> "MemDis",     port |-> "MemDis.ins[3]", linked |-> "Membrane_in"],
    [ID |-> "H2SO4_item",        unit |-> "H2SO4_Tank", port |-> "H2SO4_Tank.ins[0]", linked |-> "H2SO4"],
    [ID |-> "MgCl2_item",        unit |-> "StruPre",    port |-> "StruPre.ins[1]", linked |-> "MgCl2"],
    [ID |-> "H2_item",           unit |-> "RSP1",       port |-> "RSP1.ins[0]", linked |-> "H2"],
    [ID |-> "MgO_item",          unit |-> "StruPre",    port |-> "StruPre.ins[3]", linked |-> "MgO"],
    [ID |-> "NaOH_item",         unit |-> "MemDis",     port |-> "MemDis.ins[2]", linked |-> "NaOH"],
    [ID |-> "NH4Cl_item",        unit |-> "StruPre",    port |-> "StruPre.ins[2]", linked |-> "NH4Cl"],
    [ID |-> "struvite_item",     unit |-> "StruPre",    port |-> "StruPre.outs[0]", linked |-> "struvite"],
    [ID |-> "NH42SO4_item",      unit |-> "MemDis",     port |-> "MemDis.outs[0]", linked |-> "ammonium_sulfate"],
    [ID |-> "natural_gas_item",  unit |-> "CHP",        port |-> "CHP.ins[1]", linked |-> "natural_gas"],
    [ID |-> "CHG_catalyst_item", unit |-> "PC3",        port |-> "PC3.outs[0]", linked |-> "CHG_catalyst_out"],
    [ID |-> "HT_catalyst_item",  unit |-> "PC4",        port |-> "PC4.outs[0]", linked |-> "HT_catalyst_out"],
    [ID |-> "HC_catalyst_item",  unit |-> "PC5",        port |-> "PC5.outs[0]", linked |-> "HC_catalyst_out"],
    [ID |-> "diesel_item",       unit |-> "FuelMixer",  port |-> "FuelMixer.outs[0]", linked |-> "fuel"]>>

NItems == Len(StreamImpactItems)

\* globals bound to a unit that belongs to another unit (lines 110-111, 146-148,
\* 179-181, 229-231): <<name, the unit it is an attribute of>>
AuxiliaryUnits ==
  {<<"HTL_hx", "HTL">>, <<"HTL_drum", "HTL">>,
   <<"CHG_pump", "CHG">>, <<"CHG_heating", "CHG">>, <<"CHG_cooling", "CHG">>,
   <<"HT_compressor", "HT">>, <<"HT_hx_H2", "HT">>, <<"HT_hx_oil", "HT">>,
   <<"HC_compressor", "HC">>, <<"HC_hx_H2", "HC">>, <<"HC_hx_oil", "HC">>}

\* a loop that lists the units of the first area only
unit_alias_first_area == <<"WWTP", "SluC", "P1", "H1">>

\* the aliases registered by the loop of lines 459-467
unit_alias ==
  <<"WWTP", "SluC", "P1", "H1", "HTL", "HTL_hx", "HTL_drum", "H2SO4_Tank", "AcidEx",
    "M1", "StruPre", "CHG", "CHG_pump", "CHG_heating", "CHG_cooling", "V1", "F1", "MemDis", "SP1",
    "P2", "HT", "HT_compressor", "HT_hx_H2", "HT_hx_oil", "V2", "H2", "F2", "V3", "SP2", "H3",
    "D1", "D2", "D3", "P3",
    "HC", "HC_compressor", "HC_hx_H2", "HC_hx_oil", "H4", "V4", "F3", "D4", "GasolineMixer",
    "DieselMixer",
    "H5", "H6", "PC1", "PC2", "PC3", "PC4", "PC5", "GasolineTank", "DieselTank", "FuelMixer",
    "GasMixer", "WWmixer", "RSP1", "HXN", "CHP">>

\* a path that simulates the pump P1 after the heat exchanger H1 it feeds
sys_PSA_path_swapped ==
  <<"WWTP", "SluC", "H1", "P1", "HTL", "H2SO4_Tank",
    "AcidEx",
    "M1", "StruPre", "CHG", "V1", "F1", "MemDis", "SP1",
    "P2", "HT", "V2", "H2", "F2", "V3", "SP2", "H3", "D1", "D2", "D3", "P3",
    "HC", "H4", "V4", "F3", "D4", "GasolineMixer", "DieselMixer",
    "H5", "H6", "PC1", "PC2", "PC3", "PC4", "PC5", "GasolineTank", "DieselTank", "FuelMixer",
    "GasMixer", "WWmixer", "RSP1">>

\* qs.System('sys_PSA', path=(...), facilities=(HXN, CHP,)); no recycle is declared
sys_PSA_path ==
  <<"WWTP", "SluC", "P1", "H1", "HTL", "H2SO4_Tank",
    "AcidEx",
    "M1", "StruPre", "CHG", "V1", "F1", "MemDis", "SP1",
    "P2", "HT", "V2", "H2", "F2", "V3", "SP2", "H3", "D1", "D2", "D3", "P3",
    "HC", "H4", "V4", "F3", "D4", "GasolineMixer", "DieselMixer",
    "H5", "H6", "PC1", "PC2", "PC3", "PC4", "PC5", "GasolineTank", "DieselTank", "FuelMixer",
    "GasMixer", "WWmixer", "RSP1">>

sys_PSA_facilities == <<"HXN", "CHP">>

sys_PSA_recycle == {}

(***************************************************************************)
(* system_PSA.py: the parameters of the model (lines 510-1318)             *)
(***************************************************************************)
\* what a setter can write
U(alias, attr)     == <<"unit", alias, attr>>
Price(stream)      == <<"price", stream, "price">>
SysAttr(attr)      == <<"system", "sys_PSA", attr>>
TeaAttr(attr)      == <<"tea", "tea", attr>>
ClassAttr(c, attr) == <<"class", c, attr>>
CF(item, ind)      == <<"CF", item, ind>>

\* def set_operation_hour(i): WWTP.operation_hours=sys_PSA.operating_hours=i
set_operation_hour == {U("WWTP", "operation_hours"), SysAttr("operating_hours")}

\* def set_HT_HC_catalyst_price(i): HT.ins[2].price=HC.ins[2].price=i
\* (HT.ins[2] is the stream CoMo_alumina_HT, HC.ins[2] the stream CoMo_alumina_HC)
set_HT_HC_catalyst_price == {Price("CoMo_alumina_HT"), Price("CoMo_alumina_HC")}

\* def set_electrivity_price(i): PowerUtility.price=i   (a class attribute)
set_electrivity_price == {ClassAttr("PowerUtility", "price")}

\* a setter that also prices the hydrogen leaving the splitter
set_H2_price_two == {Price("H2"), Price("HT_H2")}

\* def set_H2_price(i): RSP1.ins[0].price=i
\* (RSP1.ins[0] is the stream H2)
set_H2_price == {Price("H2")}

ScalarParams ==
  <<
    [setter |-> "set_ww_2_dry_sludge", element |-> "WWTP", name |-> "ww_2_dry_sludge", targets |-> {U("WWTP", "ww_2_dry_sludge")}],
    [setter |-> "set_WWTP_sludge_moisture", element |-> "WWTP", name |-> "sludge_moisture", targets |-> {U("WWTP", "sludge_moisture")}],
    [setter |-> "set_sludge_dw_ash", element |-> "WWTP", name |-> "sludge_dw_ash", targets |-> {U("WWTP", "sludge_dw_ash")}],
    [setter |-> "set_sludge_afdw_lipid", element |-> "WWTP", name |-> "sludge_afdw_lipid", targets |-> {U("WWTP", "sludge_afdw_lipid")}],
    [setter |-> "set_sludge_afdw_protein", element |-> "WWTP", name |-> "sludge_afdw_protein", targets |-> {U("WWTP", "sludge_afdw_protein")}],
    [setter |-> "set_lipid_2_C", element |-> "WWTP", name |-> "lipid_2_C", targets |-> {U("WWTP", "lipid_2_C")}],
    [setter |-> "set_protein_2_C", element |-> "WWTP", name |-> "protein_2_C", targets |-> {U("WWTP", "protein_2_C")}],
    [setter |-> "set_carbo_2_C", element |-> "WWTP", name |-> "carbo_2_C", targets |-> {U("WWTP", "carbo_2_C")}],
    [setter |-> "set_C_2_H", element |-> "WWTP", name |-> "C_2_H", targets |-> {U("WWTP", "C_2_H")}],
    [setter |-> "set_protein_2_N", element |-> "WWTP", name |-> "protein_2_N", targets |-> {U("WWTP", "protein_2_N")}],
    [setter |-> "set_N_2_P", element |-> "WWTP", name |-> "N_2_P", targets |-> {U("WWTP", "N_2_P")}],
    [setter |-> "set_operation_hour", element |-> "WWTP", name |-> "operation_hour", targets |-> set_operation_hour],
    [setter |-> "set_U", element |-> "H1", name |-> "enforced heating transfer coefficient", targets |-> {U("H1", "U")}],
    [setter |-> "set_lipid_2_biocrude", element |-> "HTL", name |-> "lipid_2_biocrude", targets |-> {U("HTL", "lipid_2_biocrude")}],
    [setter |-> "set_protein_2_biocrude", element |-> "HTL", name |-> "protein_2_biocrude", targets |-> {U("HTL", "protein_2_biocrude")}],
    [setter |-> "set_carbo_2_biocrude", element |-> "HTL", name |-> "carbo_2_biocrude", targets |-> {U("HTL", "carbo_2_biocrude")}],
    [setter |-> "set_protein_2_gas", element |-> "HTL", name |-> "protein_2_gas", targets |-> {U("HTL", "protein_2_gas")}],
    [setter |-> "set_carbo_2_gas", element |-> "HTL", name |-> "carbo_2_gas", targets |-> {U("HTL", "carbo_2_gas")}],
    [setter |-> "set_biocrude_C_slope", element |-> "HTL", name |-> "biocrude_C_slope", targets |-> {U("HTL", "biocrude_C_slope")}],
    [setter |-> "set_biocrude_C_intercept", element |-> "HTL", name |-> "biocrude_C_intercept", targets |-> {U("HTL", "biocrude_C_intercept")}],
    [setter |-> "set_biocrude_N_slope", element |-> "HTL", name |-> "biocrude_N_slope", targets |-> {U("HTL", "biocrude_N_slope")}],
    [setter |-> "set_biocrude_H_slope", element |-> "HTL", name |-> "biocrude_H_slope", targets |-> {U("HTL", "biocrude_H_slope")}],
    [setter |-> "set_biocrude_H_intercept", element |-> "HTL", name |-> "biocrude_H_intercept", targets |-> {U("HTL", "biocrude_H_intercept")}],
    [setter |-> "set_HTLaqueous_C_slope", element |-> "HTL", name |-> "HTLaqueous_C_slope", targets |-> {U("HTL", "HTLaqueous_C_slope")}],
    [setter |-> "set_TOC_TC", element |-> "HTL", name |-> "TOC_TC", targets |-> {U("HTL", "TOC_TC")}],
    [setter |-> "set_biochar_C_slope", element |-> "HTL", name |-> "biochar_C_slope", targets |-> {U("HTL", "biochar_C_slope")}],
    [setter |-> "set_biocrude_moisture_content", element |-> "HTL", name |-> "biocrude_moisture_content", targets |-> {U("HTL", "biocrude_moisture_content")}],
    [setter |-> "set_biochar_P_recovery_ratio", element |-> "HTL", name |-> "biochar_P_recovery_ratio", targets |-> {U("HTL", "biochar_P_recovery_ratio")}],
    [setter |-> "set_acid_vol", element |-> "AcidEx", name |-> "acid_vol", targets |-> {U("AcidEx", "acid_vol")}],
    [setter |-> "set_P_recovery_ratio", element |-> "AcidEx", name |-> "P_acid_recovery_ratio", targets |-> {U("AcidEx", "P_acid_recovery_ratio")}],
    [setter |-> "set_StruPre_target_pH", element |-> "StruPre", name |-> "target_pH", targets |-> {U("StruPre", "target_pH")}],
    [setter |-> "set_P_pre_recovery_ratio", element |-> "StruPre", name |-> "P_pre_recovery_ratio", targets |-> {U("StruPre", "P_pre_recovery_ratio")}],
    [setter |-> "set_CHG_WHSV", element |-> "CHG", name |-> "WHSV", targets |-> {U("CHG", "WHSV")}],
    [setter |-> "set_CHG_catalyst_lifetime", element |-> "CHG", name |-> "catalyst_lifetime", targets |-> {U("CHG", "catalyst_lifetime")}],
    [setter |-> "set_gas_C_2_total_C", element |-> "CHG", name |-> "gas_C_2_total_C", targets |-> {U("CHG", "gas_C_2_total_C")}],
    [setter |-> "set_influent_pH", element |-> "MemDis", name |-> "influent_pH", targets |-> {U("MemDis", "influent_pH")}],
    [setter |-> "set_MemDis_target_pH", element |-> "MemDis", name |-> "target_pH", targets |-> {U("MemDis", "target_pH")}],
    [setter |-> "set_m2_2_m3", element |-> "MemDis", name |-> "m2_2_m3", targets |-> {U("MemDis", "m2_2_m3")}],
    [setter |-> "set_Dm", element |-> "MemDis", name |-> "Dm", targets |-> {U("MemDis", "Dm")}],
    [setter |-> "set_porosity", element |-> "MemDis", name |-> "porosity", targets |-> {U("MemDis", "porosity")}],
    [setter |-> "set_thickness", element |-> "MemDis", name |-> "thickness", targets |-> {U("MemDis", "thickness")}],
    [setter |-> "set_tortuosity", element |-> "MemDis", name |-> "tortuosity", targets |-> {U("MemDis", "tortuosity")}],
    [setter |-> "set_Ka", element |-> "MemDis", name |-> "Ka", targets |-> {U("MemDis", "Ka")}],
    [setter |-> "set_capacity", element |-> "MemDis", name |-> "capacity", targets |-> {U("MemDis", "capacity")}],
    [setter |-> "set_HT_WHSV", element |-> "HT", name |-> "WHSV", targets |-> {U("HT", "WHSV")}],
    [setter |-> "set_HT_catalyst_lifetime", element |-> "HT", name |-> "catalyst_lifetime", targets |-> {U("HT", "catalyst_lifetime")}],
    [setter |-> "set_HT_hydrogen_rxned_to_biocrude", element |-> "HT", name |-> "hydrogen_rxned_to_biocrude", targets |-> {U("HT", "hydrogen_rxned_to_biocrude")}],
    [setter |-> "set_PSA_efficiency", element |-> "HT", name |-> "PSA_efficiency", targets |-> {U("HT", "PSA_efficiency")}],
    [setter |-> "set_HT_hydrogen_excess", element |-> "HT", name |-> "hydrogen_excess", targets |-> {U("HT", "hydrogen_excess")}],
    [setter |-> "set_HT_hydrocarbon_ratio", element |-> "HT", name |-> "hydrocarbon_ratio", targets |-> {U("HT", "hydrocarbon_ratio")}],
    [setter |-> "set_HC_WHSV", element |-> "HC", name |-> "WHSV", targets |-> {U("HC", "WHSV")}],
    [setter |-> "set_HC_catalyst_lifetime", element |-> "HC", name |-> "catalyst_lifetime", targets |-> {U("HC", "catalyst_lifetime")}],
    [setter |-> "set_HC_hydrogen_rxned_to_heavy_oil", element |-> "HC", name |-> "hydrogen_rxned_to_heavy_oil", targets |-> {U("HC", "hydrogen_rxned_to_heavy_oil")}],
    [setter |-> "set_HC_hydrogen_excess", element |-> "HC", name |-> "hydrogen_excess", targets |-> {U("HC", "hydrogen_excess")}],
    [setter |-> "set_HC_hydrocarbon_ratio", element |-> "HC", name |-> "hydrocarbon_ratio", targets |-> {U("HC", "hydrocarbon_ratio")}],
    [setter |-> "set_HTL_CAPEX_factor", element |-> "TEA", name |-> "HTL_CAPEX_factor", targets |-> {U("HTL", "CAPEX_factor")}],
    [setter |-> "set_CHG_CAPEX_factor", element |-> "TEA", name |-> "CHG_CAPEX_factor", targets |-> {U("CHG", "CAPEX_factor")}],
    [setter |-> "set_HT_CAPEX_factor", element |-> "TEA", name |-> "HT_CAPEX_factor", targets |-> {U("HT", "CAPEX_factor")}],
    [setter |-> "set_unit_CAPEX", element |-> "TEA", name |-> "unit_CAPEX", targets |-> {U("CHP", "unit_CAPEX")}],
    [setter |-> "set_IRR", element |-> "TEA", name |-> "IRR", targets |-> {TeaAttr("IRR")}],
    [setter |-> "set_H2SO4_price", element |-> "TEA", name |-> "5% H2SO4 price", targets |-> {Price("H2SO4")}],
    [setter |-> "set_MgCl2_price", element |-> "TEA", name |-> "MgCl2 price", targets |-> {Price("MgCl2")}],
    [setter |-> "set_NH4Cl_price", element |-> "TEA", name |-> "NH4Cl price", targets |-> {Price("NH4Cl")}],
    [setter |-> "set_MgO_price", element |-> "TEA", name |-> "MgO price", targets |-> {Price("MgO")}],
    [setter |-> "set_struvite_price", element |-> "TEA", name |-> "struvite price", targets |-> {Price("struvite")}],
    [setter |-> "set_H2_price", element |-> "TEA", name |-> "H2 price", targets |-> set_H2_price],
    [setter |-> "set_NaOH_price", element |-> "TEA", name |-> "NaOH price", targets |-> {Price("NaOH")}],
    [setter |-> "set_ammonium_sulfate_price", element |-> "TEA", name |-> "ammonium sulfate price", targets |-> {Price("ammonium_sulfate")}],
    [setter |-> "set_membrane_price", element |-> "TEA", name |-> "membrane price", targets |-> {U("MemDis", "membrane_price")}],
    [setter |-> "set_catalyst_price", element |-> "TEA", name |-> "CHG catalyst price", targets |-> {Price("7.8%_Ru/C")}],
    [setter |-> "set_CH4_price", element |-> "TEA", name |-> "CH4 price", targets |-> {Price("natural_gas")}],
    [setter |-> "set_HT_HC_catalyst_price", element |-> "TEA", name |-> "HT & HC catalyst price", targets |-> set_HT_HC_catalyst_price],
    [setter |-> "set_gasoline_price", element |-> "TEA", name |-> "gasoline price", targets |-> {U("FuelMixer", "gasoline_price")}],
    [setter |-> "set_diesel_price", element |-> "TEA", name |-> "diesel price", targets |-> {U("FuelMixer", "diesel_price")}],
    [setter |-> "set_electrivity_price", element |-> "TEA", name |-> "electricity price", targets |-> set_electrivity_price]
  >>
\* name= of the @metric declarations, in registration order (lines 1325-1587)
Metrics ==
  <<"sludge_C", "sludge_N", "sludge_P", "sludge_E", "HTLaqueous_C", "HTLaqueous_N",
    "HTLaqueous_P", "biocrude_C", "biocrude_N", "biocrude_E", "offgas_C", "offgas_E",
    "biochar_C", "biochar_P", "HT_gasoline_C", "HT_gasoline_N", "HT_gasoline_E",
    "HT_diesel_C", "HT_diesel_E", "HT_heavy_oil_C", "HT_heavy_oil_E", "HT_gas_C",
    "HT_gas_N", "HT_gas_E", "HT_ww_C", "HT_ww_N", "HC_gasoline_C", "HC_gasoline_E",
    "HC_diesel_C", "HC_diesel_E", "HC_gas_C", "HC_gas_E", "HT_H2_E", "HC_H2_E",
    "extracted_P", "residual_P", "residual_C", "struvite_N", "struvite_P",
    "CHG_feed_C", "CHG_feed_N", "CHG_feed_P", "CHG_out_C", "CHG_out_N", "CHG_out_P",
    "CHG_gas_C", "CHG_gas_E", "ammoniumsulfate_N", "MemDis_ww_C", "MemDis_ww_N",
    "MemDis_ww_P", "MFSP", "GWP_diesel", "GWP_sludge">>

\* shape, arguments and baseline of every @param declaration (system_PSA.py 515-1299),
\* in declaration order; the numbers of a row are multiples of 1/den
distribution ==
  <<
    [setter |-> "set_ww_2_dry_sludge", shape |-> "Uniform", args |-> <<423, 517>>, baseline |-> 470, den |-> 500],
    [setter |-> "set_WWTP_sludge_moisture", shape |-> "Uniform", args |-> <<194, 199>>, baseline |-> 198, den |-> 200],
    [setter |-> "set_sludge_dw_ash", shape |-> "Triangle", args |-> <<174, 257, 414>>, baseline |-> 257, den |-> 1000],
    [setter |-> "set_sludge_afdw_lipid", shape |-> "Triangle", args |-> <<20, 51, 77>>, baseline |-> 51, den |-> 250],
    [setter |-> "set_sludge_afdw_protein", shape |-> "Triangle", args |-> <<380, 463, 510>>, baseline |-> 463, den |-> 1000],
    [setter |-> "set_lipid_2_C", shape |-> "Uniform", args |-> <<27, 33>>, baseline |-> 30, den |-> 40],
    [setter |-> "set_protein_2_C", shape |-> "Uniform", args |-> <<981, 1199>>, baseline |-> 1090, den |-> 2000],
    [setter |-> "set_carbo_2_C", shape |-> "Uniform", args |-> <<9, 11>>, baseline |-> 10, den |-> 25],
    [setter |-> "set_C_2_H", shape |-> "Triangle", args |-> <<1348, 1427, 1647>>, baseline |-> 1427, den |-> 10000],
    [setter |-> "set_protein_2_N", shape |-> "Uniform", args |-> <<1431, 1749>>, baseline |-> 1590, den |-> 10000],
    [setter |-> "set_N_2_P", shape |-> "Triangle", args |-> <<1944, 3927, 5556>>, baseline |-> 3927, den |-> 10000],
    [setter |-> "set_operation_hour", shape |-> "Triangle", args |-> <<7392, 7920, 8448>>, baseline |-> 7920, den |-> 1],
    [setter |-> "set_U", shape |-> "Triangle", args |-> <<17035, 79500, 85174>>, baseline |-> 79500, den |-> 1000000],
    [setter |-> "set_lipid_2_biocrude", shape |-> "Triangle", args |-> <<346, 423, 500>>, baseline |-> 423, den |-> 500],
    [setter |-> "set_protein_2_biocrude", shape |-> "Normal", args |-> <<89, 6>>, baseline |-> 89, den |-> 200],
    [setter |-> "set_carbo_2_biocrude", shape |-> "Normal", args |-> <<41, 10>>, baseline |-> 41, den |-> 200],
    [setter |-> "set_protein_2_gas", shape |-> "Normal", args |-> <<37, 10>>, baseline |-> 37, den |-> 500],
    [setter |-> "set_carbo_2_gas", shape |-> "Normal", args |-> <<209, 15>>, baseline |-> 209, den |-> 500],
    [setter |-> "set_biocrude_C_slope", shape |-> "Normal", args |-> <<-8370, 939>>, baseline |-> -8370, den |-> 1000],
    [setter |-> "set_biocrude_C_intercept", shape |-> "Normal", args |-> <<68550, 367>>, baseline |-> 68550, den |-> 1000],
    [setter |-> "set_biocrude_N_slope", shape |-> "Normal", args |-> <<133, 5>>, baseline |-> 133, den |-> 1000],
    [setter |-> "set_biocrude_H_slope", shape |-> "Normal", args |-> <<-1305, 176>>, baseline |-> -1305, den |-> 500],
    [setter |-> "set_biocrude_H_intercept", shape |-> "Normal", args |-> <<4100, 69>>, baseline |-> 4100, den |-> 500],
    [setter |-> "set_HTLaqueous_C_slope", shape |-> "Normal", args |-> <<239000, 9439>>, baseline |-> 239000, den |-> 500],
    [setter |-> "set_TOC_TC", shape |-> "Triangle", args |-> <<715, 764, 813>>, baseline |-> 764, den |-> 1000],
    [setter |-> "set_biochar_C_slope", shape |-> "Normal", args |-> <<875, 61>>, baseline |-> 875, den |-> 500],
    [setter |-> "set_biocrude_moisture_content", shape |-> "Triangle", args |-> <<35, 63, 102>>, baseline |-> 63, den |-> 1000],
    [setter |-> "set_biochar_P_recovery_ratio", shape |-> "Uniform", args |-> <<42, 44>>, baseline |-> 43, den |-> 50],
    [setter |-> "set_acid_vol", shape |-> "Uniform", args |-> <<4, 10>>, baseline |-> 7, den |-> 1],
    [setter |-> "set_P_recovery_ratio", shape |-> "Uniform", args |-> <<7, 9>>, baseline |-> 8, den |-> 10],
    [setter |-> "set_StruPre_target_pH", shape |-> "Uniform", args |-> <<17, 19>>, baseline |-> 18, den |-> 2],
    [setter |-> "set_P_pre_recovery_ratio", shape |-> "Triangle", args |-> <<350, 414, 475>>, baseline |-> 414, den |-> 500],
    [setter |-> "set_CHG_WHSV", shape |-> "Triangle", args |-> <<1430, 1781, 1995>>, baseline |-> 1781, den |-> 500],
    [setter |-> "set_CHG_catalyst_lifetime", shape |-> "Triangle", args |-> <<3960, 7920, 15840>>, baseline |-> 7920, den |-> 1],
    [setter |-> "set_gas_C_2_total_C", shape |-> "Triangle", args |-> <<1893, 5981, 7798>>, baseline |-> 5981, den |-> 10000],
    [setter |-> "set_influent_pH", shape |-> "Uniform", args |-> <<791, 841>>, baseline |-> 816, den |-> 100],
    [setter |-> "set_MemDis_target_pH", shape |-> "Uniform", args |-> <<50, 59>>, baseline |-> 50, den |-> 5],
    [setter |-> "set_m2_2_m3", shape |-> "Uniform", args |-> <<2250, 2751>>, baseline |-> 2500, den |-> 3000000],
    [setter |-> "set_Dm", shape |-> "Uniform", args |-> <<205, 251>>, baseline |-> 228, den |-> 10000000],
    [setter |-> "set_porosity", shape |-> "Uniform", args |-> <<81, 99>>, baseline |-> 90, den |-> 100],
    [setter |-> "set_thickness", shape |-> "Uniform", args |-> <<63, 77>>, baseline |-> 70, den |-> 1000000],
    [setter |-> "set_tortuosity", shape |-> "Uniform", args |-> <<27, 33>>, baseline |-> 30, den |-> 25],
    [setter |-> "set_Ka", shape |-> "Uniform", args |-> <<158, 193>>, baseline |-> 175, den |-> 10000000],
    [setter |-> "set_capacity", shape |-> "Uniform", args |-> <<5409, 6611>>, baseline |-> 6010, den |-> 1000],
    [setter |-> "set_HT_WHSV", shape |-> "Uniform", args |-> <<9, 11>>, baseline |-> 10, den |-> 16],
    [setter |-> "set_HT_catalyst_lifetime", shape |-> "Triangle", args |-> <<7920, 15840, 39600>>, baseline |-> 15840, den |-> 1],
    [setter |-> "set_HT_hydrogen_rxned_to_biocrude", shape |-> "Uniform", args |-> <<207, 253>>, baseline |-> 230, den |-> 5000],
    [setter |-> "set_PSA_efficiency", shape |-> "Uniform", args |-> <<8, 9>>, baseline |-> 9, den |-> 10],
    [setter |-> "set_HT_hydrogen_excess", shape |-> "Uniform", args |-> <<12, 18>>, baseline |-> 15, den |-> 5],
    [setter |-> "set_HT_hydrocarbon_ratio", shape |-> "Uniform", args |-> <<63, 77>>, baseline |-> 70, den |-> 80],
    [setter |-> "set_HC_WHSV", shape |-> "Uniform", args |-> <<9, 11>>, baseline |-> 10, den |-> 16],
    [setter |-> "set_HC_catalyst_lifetime", shape |-> "Uniform", args |-> <<35640, 43560>>, baseline |-> 39600, den |-> 1],
    [setter |-> "set_HC_hydrogen_rxned_to_heavy_oil", shape |-> "Uniform", args |-> <<81, 99>>, baseline |-> 90, den |-> 8000],
    [setter |-> "set_HC_hydrogen_excess", shape |-> "Uniform", args |-> <<5556, 8334>>, baseline |-> 6945, den |-> 1250],
    [setter |-> "set_HC_hydrocarbon_ratio", shape |-> "Uniform", args |-> <<9, 10>>, baseline |-> 10, den |-> 10],
    [setter |-> "set_HTL_CAPEX_factor", shape |-> "Triangle", args |-> <<3, 5, 7>>, baseline |-> 5, den |-> 5],
    [setter |-> "set_CHG_CAPEX_factor", shape |-> "Triangle", args |-> <<3, 5, 7>>, baseline |-> 5, den |-> 5],
    [setter |-> "set_HT_CAPEX_factor", shape |-> "Triangle", args |-> <<3, 5, 7>>, baseline |-> 5, den |-> 5],
    [setter |-> "set_unit_CAPEX", shape |-> "Uniform", args |-> <<980, 1470>>, baseline |-> 1225, den |-> 1],
    [setter |-> "set_IRR", shape |-> "Triangle", args |-> <<0, 1, 2>>, baseline |-> 1, den |-> 10],
    [setter |-> "set_H2SO4_price", shape |-> "Triangle", args |-> <<5994, 6580, 14497>>, baseline |-> 6580, den |-> 1000000],
    [setter |-> "set_MgCl2_price", shape |-> "Triangle", args |-> <<2625, 2726, 2850>>, baseline |-> 2726, den |-> 5000],
    [setter |-> "set_NH4Cl_price", shape |-> "Uniform", args |-> <<12, 14>>, baseline |-> 13, den |-> 100],
    [setter |-> "set_MgO_price", shape |-> "Uniform", args |-> <<1, 3>>, baseline |-> 2, den |-> 10],
    [setter |-> "set_struvite_price", shape |-> "Triangle", args |-> <<419, 661, 1213>>, baseline |-> 661, den |-> 1000],
    [setter |-> "set_H2_price", shape |-> "Uniform", args |-> <<1450, 1772>>, baseline |-> 1611, den |-> 1000],
    [setter |-> "set_NaOH_price", shape |-> "Uniform", args |-> <<2365, 2890>>, baseline |-> 2628, den |-> 5000],
    [setter |-> "set_ammonium_sulfate_price", shape |-> "Triangle", args |-> <<818, 1618, 2315>>, baseline |-> 1618, den |-> 5000],
    [setter |-> "set_membrane_price", shape |-> "Uniform", args |-> <<8396, 10262>>, baseline |-> 9329, den |-> 100],
    [setter |-> "set_catalyst_price", shape |-> "Triangle", args |-> <<6727, 13453, 26907>>, baseline |-> 13453, den |-> 100],
    [setter |-> "set_CH4_price", shape |-> "Triangle", args |-> <<1210, 1685, 3608>>, baseline |-> 1685, den |-> 10000],
    [setter |-> "set_HT_HC_catalyst_price", shape |-> "Uniform", args |-> <<3491, 4267>>, baseline |-> 3879, den |-> 100],
    [setter |-> "set_gasoline_price", shape |-> "Triangle", args |-> <<7085, 9388, 14493>>, baseline |-> 9388, den |-> 10000],
    [setter |-> "set_diesel_price", shape |-> "Triangle", args |-> <<7458, 9722, 16579>>, baseline |-> 9722, den |-> 10000],
    [setter |-> "set_electrivity_price", shape |-> "Triangle", args |-> <<6670, 6879, 7180>>, baseline |-> 6879, den |-> 100000]
  >>


NScalar == Len(ScalarParams)

\* a closure that looks `item` and `CF` up when it is called: after the loop both
\* name the last item and the last indicator
set_LCA_late_binding(item, ind) ==
  {CF(StreamImpactItems[NItems].ID, Indicators[Len(Indicators)])}

\* setter=DictAttrSetter(qs.ImpactItem.get_item(item), 'CFs', CF): bound per iteration
set_LCA(item, ind) == {CF(item, ind)}

NInd == Len(Indicators)

\* the loop `for item ...: for CF ...:` registers one parameter per pair, item-major
\* (the items of data/impact_items.xlsx, a file outside the sources, are left out)
LCAParam(n) ==
  LET item == StreamImpactItems[((n - 1) \div NInd) + 1].ID
      ind  == Indicators[((n - 1) % NInd) + 1]
  IN  [setter |-> "set_LCA", element |-> "LCA", name |-> <<item, ind>>,
       targets |-> set_LCA(item, ind)]

\* values a characterisation factor is given when its item is constructed (303-494)
CFValues == {-3, -1, 0, 2, 5}

\* bounds taken as 0.9 and 1.1 times the factor, in that order
LCA_distribution_unordered(x) ==
  [setter |-> "set_LCA", shape |-> "Uniform", args |-> <<9 * x, 11 * x>>,
   baseline |-> 10 * x, den |-> 10]

\* the distribution and baseline of the parameter of a characterisation factor whose
\* value is x (lines 1307-1316), in tenths
LCA_distribution(x) ==
  LET abs_small == 9 * x
      abs_large == 11 * x
      min == IF abs_small <= abs_large THEN abs_small ELSE abs_large
      max == IF abs_small >= abs_large THEN abs_small ELSE abs_large
  IN  [setter |-> "set_LCA", shape |-> "Uniform", args |-> <<min, max>>,
       baseline |-> 10 * x, den |-> 10]

NParams == NScalar + NItems * NInd

Targets(p) == IF p <= NScalar THEN ScalarParams[p].targets ELSE LCAParam(p - NScalar).targets

SetterOf(p) == IF p <= NScalar THEN ScalarParams[p].setter ELSE "set_LCA"

\* attributes no parameter writes, kept to observe the frame of the setters
OtherAttrs ==
  {U("SluC", "sludge_moisture"), U("P1", "P"), U("H1", "T"), U("F1", "T"),
   U("D1", "y_top"), U("GasolineTank", "tau"), U("FuelMixer", "target"),
   SysAttr("path"), ClassAttr("HeatUtility", "price")}

Attrs ==
  UNION {Targets(p) : p \in 1..NParams} \cup {Price(s) : s \in Streams} \cup OtherAttrs

None    == <<"none", 0, 0>>
Built   == <<"built", 0, 0>>
\* the value of sample row r for parameter p
RowVal(r, p) == <<"sample", r, p>>

\* attributes that come into being with unit k: its own and the prices of its streams
IsAttrOfUnit(t, k) ==
  \/ t[1] = "unit" /\ t[2] = Wiring[k].alias
  \/ t[1] = "price" /\ t[2] \in InletStreams(k) \cup OutletStreams(k)

(***************************************************************************)
(* system_PSA.py: the script, statement by statement                       *)
(***************************************************************************)
NSamples == 2

Stmt(op, arg) == [op |-> op, arg |-> arg]

(***************************************************************************)
(* Metrics (lines 1325-1587): each is a function of the simulated system   *)
(***************************************************************************)
\* what the metric functions read from the simulated system: the carbon (or, for
\* AcidEx.outs[1], the phosphorus) carried by a stream, an element flow computed by a
\* unit, and, for a metric that is none of the balance terms, its whole expression
Quantities ==
  {"HTL.biocrude_C", "HTL.biochar_P", "D2.outs[0]", "D3.outs[0]", "D3.outs[1]",
   "F2.outs[0]", "D1.outs[0]", "AcidEx.outs[1]"} \cup Range(Metrics)

\* the states a simulation of sys_PSA can leave: two feeds, one twice the other
SimulatedFlows ==
  {[q \in Quantities |->
      k * (CASE q = "HTL.biocrude_C" -> 100 [] q = "HTL.biochar_P" -> 10
             [] q = "D2.outs[0]" -> 20 [] q = "D3.outs[0]" -> 30 [] q = "D3.outs[1]" -> 5
             [] q = "F2.outs[0]" -> 3 [] q = "D1.outs[0]" -> 2 [] q = "AcidEx.outs[1]" -> 7
             [] OTHER -> 1)] : k \in {1, 2}}

\* get_HT_ww_C with the carbon of the column overhead D1.outs[0] left out
get_HT_ww_C_without_D1(q) ==
  q["HTL.biocrude_C"] - (q["D2.outs[0]"] + q["D3.outs[0]"] + q["D3.outs[1]"] + q["F2.outs[0]"])

\* def get_HT_ww_C() (lines 1441-1451)
get_HT_ww_C(q) ==
  q["HTL.biocrude_C"]
    - (q["D2.outs[0]"] + q["D3.outs[0]"] + q["D3.outs[1]"] + q["F2.outs[0]"] + q["D1.outs[0]"])

\* the value a metric function returns on the simulated state q
metric(name, q) ==
  CASE name = "biocrude_C"     -> q["HTL.biocrude_C"]
    [] name = "biochar_P"      -> q["HTL.biochar_P"]
    [] name = "HT_gasoline_C"  -> q["D2.outs[0]"]
    [] name = "HT_diesel_C"    -> q["D3.outs[0]"]
    [] name = "HT_heavy_oil_C" -> q["D3.outs[1]"]
    [] name = "HT_gas_C"       -> q["F2.outs[0]"] + q["D1.outs[0]"]
    [] name = "HT_ww_C"        -> get_HT_ww_C(q)
    [] name = "extracted_P"    -> q["AcidEx.outs[1]"]
    [] name = "residual_P"     -> q["HTL.biochar_P"] - q["AcidEx.outs[1]"]
    [] OTHER                   -> q[name]

\* a get_MFSP whose tea.solve_price leaves the solved price on the fuel stream
metric_writes_fuel_price == {Price("fuel")}

\* the attributes the metric functions assign: every body is a return expression over
\* local accumulators
metric_writes == {}

Script ==
  [k \in 1..NUnits |-> Stmt("unit", k)]
    \o [j \in 1..(NItems - 1) |-> Stmt("item", j)]
    \o <<Stmt("alias", 0), Stmt("system", 0), Stmt("operating_hours", 0),
         Stmt("lca", 1), Stmt("item", NItems), Stmt("lca", 2), Stmt("tea", 0),
         Stmt("model", 0)>>
    \o [p \in 1..NParams |-> Stmt("param", p)]
    \o [m \in 1..Len(Metrics) |-> Stmt("metric", m)]
    \o <<Stmt("sample", 0), Stmt("load_samples", 0), Stmt("evaluate", 0),
         Stmt("organize_results", 0)>>

At(op) == pc \in 1..Len(Script) /\ Script[pc].op = op

OthersOfPSA == <<varsFS, varsGeo, varsCAS, varsInt, varsCap, varsAttr>>

\* X = su.Unit('ID', ins=..., outs=...), followed by its `.price = ...` lines
ConstructUnit ==
  /\ At("unit")
  /\ LET k == Script[pc].arg
         w == Wiring[k]
         outs == w.outs
         ins == [j \in 1..Len(w.ins) |-> RefStream(w.ins[j])]
     IN  /\ ReferredUnits(k) \subseteq Range(units)
         /\ units' = Append(units, w.alias)
         /\ source' = [s \in DOMAIN source |->
                         source[s] \cup {<<w.alias, i - 1>> : i \in {j \in 1..Len(outs) : outs[j] = s}}]
         /\ sink' = [s \in DOMAIN sink |->
                       sink[s] \cup {<<w.alias, i - 1>> : i \in {j \in 1..Len(ins) : ins[j] = s}}]
         /\ attrs' = [t \in DOMAIN attrs |-> IF IsAttrOfUnit(t, k) THEN Built ELSE attrs[t]]
  /\ pc' = pc + 1
  /\ UNCHANGED <<overlay, aliases, path, simCount, nparams, loaded, doneRows, row, order,
                 pos, rowSim, evalCount>>
  /\ UNCHANGED <<nmetrics, flows, table, sheets>>
  /\ UNCHANGED OthersOfPSA

\* X_item = qs.StreamImpactItem(ID=..., linked_stream=..., <CFs>)
AttachItem ==
  /\ At("item")
  /\ LET it == StreamImpactItems[Script[pc].arg]
     IN  /\ it.unit \in Range(units)
         /\ overlay' = Append(overlay, it.ID)
         /\ attrs' = [t \in DOMAIN attrs |-> IF t[1] = "CF" /\ t[2] = it.ID THEN Built ELSE attrs[t]]
  /\ pc' = pc + 1
  /\ UNCHANGED <<units, source, sink, aliases, path, simCount, nparams, loaded, doneRows,
                 row, order, pos, rowSim, evalCount>>
  /\ UNCHANGED <<nmetrics, flows, table, sheets>>
  /\ UNCHANGED OthersOfPSA

\* baseline= of the @param declarations whose target is given a value by the script
\* itself, keyed by setter, in units of 1e-5 (0.94 is 94000); the other scalar
\* parameters target attributes that take the default of a unit class, and the
\* baseline of an LCA parameter is read from its own target (line 1315)
baseline ==
  [set_ww_2_dry_sludge |-> 94000, set_WWTP_sludge_moisture |-> 99000,
   set_sludge_dw_ash |-> 25700, set_sludge_afdw_lipid |-> 20400,
   set_sludge_afdw_protein |-> 46300, set_operation_hour |-> 792000000,
   set_U |-> 7950, set_H2SO4_price |-> 658, set_MgCl2_price |-> 54520,
   set_NH4Cl_price |-> 13000, set_MgO_price |-> 20000, set_struvite_price |-> 66100,
   set_H2_price |-> 161100, set_NaOH_price |-> 52560,
   set_ammonium_sulfate_price |-> 32360, set_catalyst_price |-> 13453000,
   set_CH4_price |-> 16850, set_HT_HC_catalyst_price |-> 3879000]

\* the values the construction statements give to these targets (lines 78-82, 100,
\* 119, 140-143, 149, 158-159, 176, 182, 232, 301, 478), in units of 1e-5
as_constructed ==
  [t \in {U("WWTP", "ww_2_dry_sludge"), U("WWTP", "sludge_moisture"),
          U("WWTP", "sludge_dw_ash"), U("WWTP", "sludge_afdw_lipid"),
          U("WWTP", "sludge_afdw_protein"), U("WWTP", "operation_hours"),
          SysAttr("operating_hours"), U("H1", "U"), Price("H2SO4"), Price("MgCl2"),
          Price("NH4Cl"), Price("MgO"), Price("struvite"), Price("H2"), Price("NaOH"),
          Price("ammonium_sulfate"), Price("7.8%_Ru/C"), Price("natural_gas"),
          Price("CoMo_alumina_HT"), Price("CoMo_alumina_HC")} |->
     CASE t = U("WWTP", "ww_2_dry_sludge")      -> 94000
       [] t = U("WWTP", "sludge_moisture")      -> 99000
       [] t = U("WWTP", "sludge_dw_ash")        -> 25700
       [] t = U("WWTP", "sludge_afdw_lipid")    -> 20400
       [] t = U("WWTP", "sludge_afdw_protein")  -> 46300
       [] t = U("WWTP", "operation_hours")      -> 792000000
       [] t = SysAttr("operating_hours")        -> 792000000
       [] t = U("H1", "U")                      -> 7950
       [] t = Price("H2SO4")                    -> 658
       [] t = Price("MgCl2")                    -> 54520
       [] t = Price("NH4Cl")                    -> 13000
       [] t = Price("MgO")                      -> 20000
       [] t = Price("struvite")                 -> 66100
       [] t = Price("H2")                       -> 161000
       [] t = Price("NaOH")                     -> 52560
       [] t = Price("ammonium_sulfate")         -> 32360
       [] t = Price("7.8%_Ru/C")                -> 13453000
       [] t = Price("natural_gas")              -> 16850
       [] t = Price("CoMo_alumina_HT")          -> 3879000
       [] t = Price("CoMo_alumina_HC")          -> 3879000]

\* the name is bound in globals() to a unit: one constructed by the script, or an
\* attribute of one
IsGlobalUnit(a) ==
  \/ a \in Range(units)
  \/ \E x \in AuxiliaryUnits : x[1] = a /\ x[2] \in Range(units)

\* for unit_alias in (...): dct[unit_alias].register_alias(unit_alias)
RegisterAliases ==
  /\ At("alias")
  /\ \A a \in Range(unit_alias) : IsGlobalUnit(a)
  /\ aliases' = aliases \cup Range(unit_alias)
  /\ pc' = pc + 1
  /\ UNCHANGED <<units, source, sink, attrs, overlay, path, simCount, nparams, loaded,
                 doneRows, row, order, pos, rowSim, evalCount>>
  /\ UNCHANGED <<nmetrics, flows, table, sheets>>
  /\ UNCHANGED OthersOfPSA

\* sys_PSA = qs.System('sys_PSA', path=(...), facilities=(HXN, CHP,))
CreateSystem ==
  /\ At("system")
  /\ Range(sys_PSA_path) \cup Range(sys_PSA_facilities) \subseteq Range(units)
  /\ path' = sys_PSA_path
  /\ attrs' = [attrs EXCEPT ![SysAttr("path")] = Built]
  /\ pc' = pc + 1
  /\ UNCHANGED <<units, source, sink, overlay, aliases, simCount, nparams, loaded, doneRows,
                 row, order, pos, rowSim, evalCount>>
  /\ UNCHANGED <<nmetrics, flows, table, sheets>>
  /\ UNCHANGED OthersOfPSA

\* sys_PSA.operating_hours = WWTP.operation_hours
SetOperatingHours ==
  /\ At("operating_hours")
  /\ attrs' = [attrs EXCEPT ![SysAttr("operating_hours")] = attrs[U("WWTP", "operation_hours")]]
  /\ pc' = pc + 1
  /\ UNCHANGED <<units, source, sink, overlay, aliases, path, simCount, nparams, loaded,
                 doneRows, row, order, pos, rowSim, evalCount>>
  /\ UNCHANGED <<nmetrics, flows, table, sheets>>
  /\ UNCHANGED OthersOfPSA

\* an LCA built as with simulate_system=False
LCA_simulate_system_off == FALSE

\* qs.LCA(system=sys_PSA, ...) is called without simulate_system, whose default is True:
\* constructing the LCA simulates the system it is given
LCA_simulate_system == TRUE

\* lca_x = qs.LCA(system=sys_PSA, lifetime=30, ...)
CreateLCA ==
  /\ At("lca")
  /\ path # <<>>
  /\ simCount' = IF LCA_simulate_system THEN simCount + 1 ELSE simCount
  /\ IF LCA_simulate_system THEN flows' \in SimulatedFlows ELSE flows' = flows
  /\ overlay' = Append(overlay, IF Script[pc].arg = 1 THEN "lca_diesel" ELSE "lca_sludge")
  /\ pc' = pc + 1
  /\ UNCHANGED <<units, source, sink, attrs, aliases, path, nparams, loaded, doneRows, row,
                 order, pos, rowSim, evalCount>>
  /\ UNCHANGED <<nmetrics, table, sheets>>
  /\ UNCHANGED OthersOfPSA

\* tea = create_tea(sys_PSA)
CreateTEA ==
  /\ At("tea")
  /\ path # <<>>
  /\ overlay' = Append(overlay, "tea")
  /\ attrs' = [t \in DOMAIN attrs |-> IF t[1] \in {"tea", "class"} THEN Built ELSE attrs[t]]
  /\ pc' = pc + 1
  /\ UNCHANGED <<units, source, sink, aliases, path, simCount, nparams, loaded, doneRows,
                 row, order, pos, rowSim, evalCount>>
  /\ UNCHANGED <<nmetrics, flows, table, sheets>>
  /\ UNCHANGED OthersOfPSA

\* model = Model(sys_PSA)
CreateModel ==
  /\ At("model")
  /\ path # <<>>
  /\ nparams' = 0
  /\ pc' = pc + 1
  /\ UNCHANGED <<units, source, sink, attrs, overlay, aliases, path, simCount, loaded,
                 doneRows, row, order, pos, rowSim, evalCount>>
  /\ UNCHANGED <<nmetrics, flows, table, sheets>>
  /\ UNCHANGED OthersOfPSA

\* @param(name=..., element=..., baseline=..., distribution=dist) def set_x(i): ...
RegisterParam ==
  /\ At("param")
  /\ Script[pc].arg = nparams + 1
  /\ LET written == Targets(Script[pc].arg) IN \A t \in written : attrs[t] # None
  /\ nparams' = nparams + 1
  /\ pc' = pc + 1
  /\ UNCHANGED <<units, source, sink, attrs, overlay, aliases, path, simCount, loaded,
                 doneRows, row, order, pos, rowSim, evalCount>>
  /\ UNCHANGED <<nmetrics, flows, table, sheets>>
  /\ UNCHANGED OthersOfPSA

\* @metric(name=..., units=..., element=...) def get_x(): ...
RegisterMetric ==
  /\ At("metric")
  /\ Script[pc].arg = nmetrics + 1
  /\ nmetrics' = nmetrics + 1
  /\ pc' = pc + 1
  /\ UNCHANGED <<units, source, sink, attrs, overlay, aliases, path, simCount, nparams,
                 loaded, doneRows, row, order, pos, rowSim, evalCount>>
  /\ UNCHANGED <<flows, table, sheets>>
  /\ UNCHANGED OthersOfPSA

\* samples = model.sample(N=1000, rule='L')
Sample ==
  /\ At("sample")
  /\ pc' = pc + 1
  /\ UNCHANGED <<units, source, sink, attrs, overlay, aliases, path, simCount, nparams,
                 loaded, doneRows, row, order, pos, rowSim, evalCount>>
  /\ UNCHANGED <<nmetrics, flows, table, sheets>>
  /\ UNCHANGED OthersOfPSA

\* model.load_samples(samples)
LoadSamples ==
  /\ At("load_samples")
  /\ loaded' = NSamples
  /\ table' = [columns |-> [p \in 1..nparams |-> <<"parameter", p>>]
                             \o [m \in 1..nmetrics |-> <<"metric", m>>],
                rows |-> [r \in 1..NSamples |-> <<>>]]
  /\ pc' = pc + 1
  /\ UNCHANGED <<units, source, sink, attrs, overlay, aliases, path, simCount, nparams,
                 doneRows, row, order, pos, rowSim, evalCount>>
  /\ UNCHANGED <<nmetrics, flows, sheets>>
  /\ UNCHANGED OthersOfPSA

(***************************************************************************)
(* model.evaluate() (line 1593): for each sample row, apply every setter,  *)
(* simulate the system, evaluate the metrics                               *)
(***************************************************************************)
Orders == {"forward", "reverse"}

\* the parameter whose setter runs n-th in a row
ParamAt(o, n) == IF o = "forward" THEN n ELSE NParams + 1 - n

StartRow ==
  /\ At("evaluate")
  /\ row = 0
  /\ \E r \in (1..loaded) \ Range(doneRows), o \in Orders :
       /\ row' = r
       /\ order' = o
  /\ pos' = 0
  /\ rowSim' = FALSE
  /\ UNCHANGED <<pc, units, source, sink, attrs, overlay, aliases, path, simCount, nparams,
                 loaded, doneRows, evalCount>>
  /\ UNCHANGED <<nmetrics, flows, table, sheets>>
  /\ UNCHANGED OthersOfPSA

\* one setter call: every target of the parameter is assigned the row's value
ApplySetter ==
  /\ At("evaluate")
  /\ row # 0
  /\ pos < nparams
  /\ LET p == ParamAt(order, pos + 1)
         written == Targets(p)
     IN  attrs' = [t \in DOMAIN attrs |-> IF t \in written THEN RowVal(row, p) ELSE attrs[t]]
  /\ pos' = pos + 1
  /\ UNCHANGED <<pc, units, source, sink, overlay, aliases, path, simCount, nparams, loaded,
                 doneRows, row, order, rowSim, evalCount>>
  /\ UNCHANGED <<nmetrics, flows, table, sheets>>
  /\ UNCHANGED OthersOfPSA

SimulateRow ==
  /\ At("evaluate")
  /\ row # 0
  /\ pos = nparams
  /\ ~rowSim
  /\ rowSim' = TRUE
  /\ simCount' = simCount + 1
  /\ flows' \in SimulatedFlows
  /\ UNCHANGED <<pc, units, source, sink, attrs, overlay, aliases, path, nparams, loaded,
                 doneRows, row, order, pos, evalCount>>
  /\ UNCHANGED <<nmetrics, table, sheets>>
  /\ UNCHANGED OthersOfPSA

EvaluateMetrics ==
  /\ At("evaluate")
  /\ row # 0
  /\ rowSim
  /\ evalCount' = evalCount + 1
  /\ table' = [table EXCEPT !.rows[row] = [m \in 1..nmetrics |-> metric(Metrics[m], flows)]]
  /\ attrs' = [t \in DOMAIN attrs |->
                IF t \in metric_writes THEN <<"metric", 0, 0>> ELSE attrs[t]]
  /\ doneRows' = Append(doneRows, row)
  /\ row' = 0
  /\ UNCHANGED <<pc, units, source, sink, overlay, aliases, path, simCount, nparams,
                 loaded, order, pos, rowSim>>
  /\ UNCHANGED <<nmetrics, flows, sheets>>
  /\ UNCHANGED OthersOfPSA

FinishEvaluate ==
  /\ At("evaluate")
  /\ row = 0
  /\ Len(doneRows) = loaded
  /\ pc' = pc + 1
  /\ UNCHANGED <<units, source, sink, attrs, overlay, aliases, path, simCount, nparams,
                 loaded, doneRows, row, order, pos, rowSim, evalCount>>
  /\ UNCHANGED <<nmetrics, flows, table, sheets>>
  /\ UNCHANGED OthersOfPSA

\* organize_results with the split taken at the number of metrics
organize_results_split_at_metrics ==
  /\ At("organize_results")
  /\ LET idx == nmetrics
         parameters == SubSeq(table.columns, 1, idx)
         results == SubSeq(table.columns, idx + 1, Len(table.columns))
         index == [r \in 1..Len(table.rows) |-> r]
     IN  sheets' = [name \in {"Parameters", "Results", "Percentiles"} |->
                     CASE name = "Parameters" -> [columns |-> parameters, index |-> index]
                       [] name = "Results" -> [columns |-> results, index |-> index]
                       [] name = "Percentiles" ->
                            [columns |-> results, index |-> <<0, 5, 25, 50, 75, 95, 100>>]]
  /\ pc' = pc + 1
  /\ UNCHANGED <<units, source, sink, attrs, overlay, aliases, path, simCount, nparams,
                 loaded, doneRows, row, order, pos, rowSim, evalCount>>
  /\ UNCHANGED <<nmetrics, flows, table>>
  /\ UNCHANGED OthersOfPSA

\* organize_results(model, 'example_model.xlsx') (lines 1596-1605); the quantiles
\* [0, 0.05, 0.25, 0.5, 0.75, 0.95, 1] are written in percent
organize_results ==
  /\ At("organize_results")
  /\ LET idx == nparams
         parameters == SubSeq(table.columns, 1, idx)
         results == SubSeq(table.columns, idx + 1, Len(table.columns))
         index == [r \in 1..Len(table.rows) |-> r]
     IN  sheets' = [name \in {"Parameters", "Results", "Percentiles"} |->
                     CASE name = "Parameters" -> [columns |-> parameters, index |-> index]
                       [] name = "Results" -> [columns |-> results, index |-> index]
                       [] name = "Percentiles" ->
                            [columns |-> results, index |-> <<0, 5, 25, 50, 75, 95, 100>>]]
  /\ pc' = pc + 1
  /\ UNCHANGED <<units, source, sink, attrs, overlay, aliases, path, simCount, nparams,
                 loaded, doneRows, row, order, pos, rowSim, evalCount>>
  /\ UNCHANGED <<nmetrics, flows, table>>
  /\ UNCHANGED OthersOfPSA

NextPSA ==
  \/ ConstructUnit
  \/ AttachItem
  \/ RegisterAliases
  \/ CreateSystem
  \/ SetOperatingHours
  \/ CreateLCA
  \/ CreateTEA
  \/ CreateModel
  \/ RegisterParam
  \/ RegisterMetric
  \/ Sample
  \/ LoadSamples
  \/ StartRow
  \/ ApplySetter
  \/ SimulateRow
  \/ EvaluateMetrics
  \/ FinishEvaluate
  \/ organize_results

(***************************************************************************)
(* Flowsheet builders: co2_sorbent/systems.py create_system_A and          *)
(* metab/systems.py create_system                                          *)
(*                                                                         *)
(* A registry maps a key to the number of objects registered under it      *)
(* since the registry was last cleared: the framework keeps the newest     *)
(* object under a key, so a number above one is a live entry replaced by   *)
(* a second registration.  A key is <<kind, ID>>; an impact item created   *)
(* without an ID is keyed by the call that created it.                     *)
(***************************************************************************)
EmptyRegistry == [k \in {} |-> 0]

Register(reg, key) ==
  [k \in (DOMAIN reg) \cup {key} |->
     IF k = key THEN (IF key \in DOMAIN reg THEN reg[key] ELSE 0) + 1 ELSE reg[k]]

\* a rebuild that leaves the registries of the earlier flowsheet as they are
Flowsheet_clear_kept(reg) == reg

\* Flowsheet.clear(): every registry of the flowsheet is emptied
Flowsheet_clear(reg) == EmptyRegistry

\* utils.clear_lca_registries(): the impact registries are emptied
clear_lca_registries == EmptyRegistry

\* a flowsheet that comes with the feed stream of an earlier build
Flowsheet_with_leftover(ID) ==
  [ID |-> ID, reg |-> Register(EmptyRegistry, <<"stream", "inf">>), overlay |-> {},
   simulated |-> {}, unit |-> EmptyRegistry, system |-> EmptyRegistry]

\* a flowsheet object as qs.Flowsheet(ID) creates it: `unit` holds, for every unit
\* constructed on it, the arguments of its constructor, `system` the path of every system
Flowsheet(ID) ==
  [ID |-> ID, reg |-> EmptyRegistry, overlay |-> {}, simulated |-> {},
   unit |-> EmptyRegistry, system |-> EmptyRegistry]

\* one statement of a builder
Op(op, ID, line) == [op |-> op, ID |-> ID, line |-> line]

\* n_layer and n_cstr are the attributes the reactor class gives its instances
NoCall == [fn |-> "", n_stages |-> 0, reactor_type |-> "", gas_extraction |-> "",
           flowsheet |-> 0, Q |-> 0, tot_HRT |-> 0, n_layer |-> 0, n_cstr |-> 0]

NoReturn == [fn |-> "", ok |-> FALSE, sys_ID |-> "", flowsheet |-> 0]

flowsheet_ID == "ALF_A"

\* create_system_A, statement by statement
create_system_A ==
  << Op("clear", flowsheet_ID, 42),
     Op("Flowsheet", flowsheet_ID, 45),
     Op("_load_components", "", 49),
     Op("WasteStream", "aluminum_hydroxide", 55),
     Op("WasteStream", "water", 59),
     Op("Unit", "feed_mixer_1", 61),
     Op("register_alias", "M1", 62),
     Op("WasteStream", "formic_acid", 66),
     Op("Unit", "feed_mixer_2", 68),
     Op("register_alias", "M2", 69),
     Op("Unit", "ALF_production", 71),
     Op("register_alias", "R1", 72),
     Op("Unit", "ALF_crystallizer", 76),
     Op("register_alias", "C1", 77),
     Op("Unit", "ALF_filter", 80),
     Op("register_alias", "F1", 81),
     Op("Unit", "ALF_dryer", 84),
     Op("register_alias", "D1", 85),
     Op("System", "sys_ALF_A", 88),
     Op("register_alias", "sys", 89),
     Op("simulate", "sys_ALF_A", 91),
     Op("return", "sys_ALF_A", 145) >>

reactor_classes == {"UASB", "FB", "PB"}

Digit(n) == IF n = 1 THEN "1" ELSE IF n = 2 THEN "2" ELSE "3"

sys_ID(reactor_type, n_stages, gas_extraction) ==
  reactor_type \o Digit(n_stages) \o gas_extraction

\* metab create_system, statement by statement, for one configuration
create_system(n_stages, gas_extraction, sid) ==
  << Op("Flowsheet", sid, 152),
     Op("create_adm1_cmps", "", 155),
     Op("WasteStream", "inf", 158),
     Op("WasteStream", "eff", 161),
     Op("WasteStream", "eff_dg", 162),
     Op("WasteStream", "bge", 163),
     Op("add_fugch4_iitm", "eff", 164) >>
  \o (IF n_stages = 1
      THEN << Op("WasteStream", "bg", 170),
              Op("add_ngoffset_iitm", "bg", 171),
              Op("Unit", "R1", 172),
              Op("set_init_concs", "R1", 176),
              Op("System", sid, 177) >>
      ELSE << Op("WasteStream", "bg1", 180),
              Op("WasteStream", "bg2", 181),
              Op("add_ngoffset_iitm", "bg1", 182),
              Op("add_ngoffset_iitm", "bg2", 183) >>
           \o (IF gas_extraction = "M"
               THEN << Op("WasteStream", "bgs", 185),
                       Op("add_ngoffset_iitm", "bgs", 186),
                       Op("Unit", "R1", 187),
                       Op("Unit", "DMs", 191),
                       Op("add_chemicals_iitm", "DMs", 192),
                       Op("Unit", "R2", 193),
                       Op("System", sid, 197) >>
               ELSE << Op("Unit", "R1", 202),
                       Op("Unit", "R2", 206),
                       Op("System", sid, 210) >>)
           \o << Op("set_init_concs", "R1", 213),
                 Op("set_init_concs", "R2", 214) >>)
  \o << Op("add_TEA_LCA", sid, 216),
        Op("Unit", "DMe", 218),
        Op("add_chemicals_iitm", "DMe", 219),
        Op("add_fugch4_iitm", "eff_dg", 220),
        Op("add_ngoffset_iitm", "bge", 221),
        Op("System", sid \o "_edg", 223),
        Op("add_TEA_LCA", sid \o "_edg", 224),
        Op("return", sid, 225) >>

\* a two-stage 'M' build whose side membrane takes the outlet meant for R2
UnitArguments_DMs_on_third_outlet(ID) ==
  LET V == fcall.Q * fcall.tot_HRT
      NoEquipment == {}
      Membrane(ins, outs) ==
        [ins |-> ins, outs |-> outs, V_liq |-> 0, V_gas |-> 0, equipment |-> NoEquipment,
         fixed_headspace_P |-> "", _concs |-> 0]
  IN  IF ID = "DMe" THEN Membrane(<<S("eff")>>, <<S("bge"), S("eff_dg")>>)
      ELSE IF fcall.n_stages = 1
      THEN [ins |-> <<S("inf")>>, outs |-> <<S("bg"), S("eff")>>,
            V_liq |-> 120 * V, V_gas |-> 12 * V, equipment |-> {"IST", "GH"},
            fixed_headspace_P |-> "default", _concs |-> 0]
      ELSE IF fcall.gas_extraction = "M"
      THEN IF ID = "R1"
           THEN [ins |-> <<S("inf"), S("")>>, outs |-> <<S("bg1"), S(""), S("")>>,
                 V_liq |-> 10 * V, V_gas |-> V, equipment |-> NoEquipment,
                 fixed_headspace_P |-> "default", _concs |-> 0]
           ELSE IF ID = "DMs"
           THEN Membrane(<<O("R1", 2)>>, <<S("bgs"), <<"i", "R1", 1>> >>)
           ELSE [ins |-> <<O("R1", 2)>>, outs |-> <<S("bg2"), S("eff")>>,
                 V_liq |-> 110 * V, V_gas |-> 11 * V, equipment |-> {"IST", "GH"},
                 fixed_headspace_P |-> "default", _concs |-> 0]
      ELSE IF ID = "R1"
           THEN [ins |-> <<S("inf")>>, outs |-> <<S("bg1"), S("")>>,
                 V_liq |-> 10 * V, V_gas |-> V, equipment |-> NoEquipment,
                 fixed_headspace_P |-> IF fcall.gas_extraction = "P" THEN "False" ELSE "True",
                 _concs |-> 0]
           ELSE [ins |-> <<O("R1", 1)>>, outs |-> <<S("bg2"), S("eff")>>,
                 V_liq |-> 110 * V, V_gas |-> 11 * V, equipment |-> {"IST", "GH"},
                 fixed_headspace_P |-> "default", _concs |-> 0]

\* the arguments of the constructor of unit ID in metab create_system (lines 172-218).
\* Volumes are in units of 1/120 of Q*tot_HRT's unit, so that V/12 and 0.1*V are whole;
\* `X-k` is O(X, k), `k-X` is <<"i", X, k>>, '' is S(""); an argument the call
\* leaves to the class is "default"; _concs is the number of copies of C0_bulk (0: unset)
UnitArguments(ID) ==
  LET V == fcall.Q * fcall.tot_HRT
      NoEquipment == {}
      Membrane(ins, outs) ==
        [ins |-> ins, outs |-> outs, V_liq |-> 0, V_gas |-> 0, equipment |-> NoEquipment,
         fixed_headspace_P |-> "", _concs |-> 0]
  IN  IF ID = "DMe" THEN Membrane(<<S("eff")>>, <<S("bge"), S("eff_dg")>>)
      ELSE IF fcall.n_stages = 1
      THEN [ins |-> <<S("inf")>>, outs |-> <<S("bg"), S("eff")>>,
            V_liq |-> 120 * V, V_gas |-> 12 * V, equipment |-> {"IST", "GH"},
            fixed_headspace_P |-> "default", _concs |-> 0]
      ELSE IF fcall.gas_extraction = "M"
      THEN IF ID = "R1"
           THEN [ins |-> <<S("inf"), S("")>>, outs |-> <<S("bg1"), S(""), S("")>>,
                 V_liq |-> 10 * V, V_gas |-> V, equipment |-> NoEquipment,
                 fixed_headspace_P |-> "default", _concs |-> 0]
           ELSE IF ID = "DMs"
           THEN Membrane(<<O("R1", 1)>>, <<S("bgs"), <<"i", "R1", 1>> >>)
           ELSE [ins |-> <<O("R1", 2)>>, outs |-> <<S("bg2"), S("eff")>>,
                 V_liq |-> 110 * V, V_gas |-> 11 * V, equipment |-> {"IST", "GH"},
                 fixed_headspace_P |-> "default", _concs |-> 0]
      ELSE IF ID = "R1"
           THEN [ins |-> <<S("inf")>>, outs |-> <<S("bg1"), S("")>>,
                 V_liq |-> 10 * V, V_gas |-> V, equipment |-> NoEquipment,
                 fixed_headspace_P |-> IF fcall.gas_extraction = "P" THEN "False" ELSE "True",
                 _concs |-> 0]
           ELSE [ins |-> <<O("R1", 1)>>, outs |-> <<S("bg2"), S("eff")>>,
                 V_liq |-> 110 * V, V_gas |-> 11 * V, equipment |-> {"IST", "GH"},
                 fixed_headspace_P |-> "default", _concs |-> 0]

\* a packed bed initialised like a fluidized bed
np_tile_without_n_cstr(reactor_type, n_layer, n_cstr) ==
  IF reactor_type = "UASB" THEN 1 ELSE n_layer + 1

\* set_init_concs (lines 134-142): how many times C0_bulk is repeated for a reactor
np_tile(reactor_type, n_layer, n_cstr) ==
  IF reactor_type = "UASB" THEN 1
  ELSE IF reactor_type = "FB" THEN n_layer + 1
  ELSE (n_layer + 1) * n_cstr

\* the path= argument of the System constructed under ID in metab create_system
SystemPath(ID) ==
  IF ID = sys_ID(fcall.reactor_type, fcall.n_stages, fcall.gas_extraction) \o "_edg"
  THEN <<sys_ID(fcall.reactor_type, fcall.n_stages, fcall.gas_extraction), "DMe">>
  ELSE IF fcall.n_stages = 1 THEN <<"R1">>
  ELSE IF fcall.gas_extraction = "M" THEN <<"R1", "DMs", "R2">>
  ELSE <<"R1", "R2">>

\* the statements of the running call
Body ==
  IF fcall.fn = "create_system_A" THEN create_system_A
  ELSE IF fcall.fn = "create_system"
       THEN create_system(fcall.n_stages, fcall.gas_extraction,
                          sys_ID(fcall.reactor_type, fcall.n_stages, fcall.gas_extraction))
       ELSE << >>

Cur == Body[fpc]

Running(op) == fpc >= 1 /\ fpc <= Len(Body) /\ Cur.op = op

\* bound: number of builder calls made one after the other
MaxCalls == 3

ReactorTypes == {"UASB"}
Stages == {1, 2}
GasExtractions == {"P", "M", "H"}

OthersOfFS == <<varsPSA, varsGeo, varsCAS, varsInt, varsCap, varsAttr>>

\* register under `key` in the registries of the main flowsheet
RegisterInMain(key) ==
  fsObjs' = [fsObjs EXCEPT ![mainfs].reg = Register(fsObjs[mainfs].reg, key)]

\* the caller calls create_system_A()
Call_create_system_A ==
  /\ fpc = 0
  /\ ncalls < MaxCalls
  /\ ncalls' = ncalls + 1
  /\ fcall' = [NoCall EXCEPT !.fn = "create_system_A"]
  /\ fpc' = 1
  /\ UNCHANGED <<fsObjs, flowsheets, mainfs, lcaItems, thermo, loadedCmps, lastRet>>
  /\ UNCHANGED OthersOfFS

\* the caller calls create_system(n_stages, reactor_type, gas_extraction, flowsheet):
\* flowsheet is None (0) or the flowsheet that is the main one at the call
Call_create_system ==
  /\ fpc = 0
  /\ ncalls < MaxCalls
  /\ \E rt \in ReactorTypes, n \in Stages, ge \in GasExtractions, fs \in {0, mainfs} :
       fcall' = [fn |-> "create_system", n_stages |-> n, reactor_type |-> rt,
                 gas_extraction |-> ge, flowsheet |-> fs, Q |-> 5, tot_HRT |-> 12,
                 n_layer |-> 0, n_cstr |-> 0]
  /\ ncalls' = ncalls + 1
  /\ fpc' = 1
  /\ UNCHANGED <<fsObjs, flowsheets, mainfs, lcaItems, thermo, loadedCmps, lastRet>>
  /\ UNCHANGED OthersOfFS

\* the caller calls create_system with arguments outside the documented ones: a
\* reactor type that is no key of reactor_classes, three stages, or a gas extraction
\* mode other than 'P', 'M', 'H'
Call_create_system_invalid ==
  /\ fpc = 0
  /\ ncalls < MaxCalls
  /\ \E c \in {<<"CSTR", 1, "P">>, <<"UASB", 3, "P">>, <<"UASB", 2, "X">>} :
       fcall' = [fn |-> "create_system", n_stages |-> c[2], reactor_type |-> c[1],
                 gas_extraction |-> c[3], flowsheet |-> 0, Q |-> 5, tot_HRT |-> 12,
                 n_layer |-> 0, n_cstr |-> 0]
  /\ ncalls' = ncalls + 1
  /\ fpc' = 1
  /\ UNCHANGED <<fsObjs, flowsheets, mainfs, lcaItems, thermo, loadedCmps, lastRet>>
  /\ UNCHANGED OthersOfFS

\* bound: number of calls that choose the reactor class and the feed
MaxBuilds == 1

\* the reactor classes with the n_layer and n_cstr of their instances (a UASB has neither)
ReactorKinds ==
  {<<"UASB", 0, 0>>, <<"FB", 1, 0>>, <<"FB", 2, 0>>, <<"PB", 1, 2>>, <<"PB", 2, 3>>}

\* the caller calls create_system(n_stages, reactor_type, gas_extraction, Q=..., tot_HRT=...)
\* with any of the documented configurations and a feed of its choice
Call_create_system_sized ==
  /\ fpc = 0
  /\ ncalls < MaxBuilds
  /\ \E r \in ReactorKinds, n \in Stages, ge \in GasExtractions,
        feed \in {<<5, 12>>, <<8, 6>>} :
       fcall' = [fn |-> "create_system", n_stages |-> n, reactor_type |-> r[1],
                 gas_extraction |-> ge, flowsheet |-> 0, Q |-> feed[1],
                 tot_HRT |-> feed[2], n_layer |-> r[2], n_cstr |-> r[3]]
  /\ ncalls' = ncalls + 1
  /\ fpc' = 1
  /\ UNCHANGED <<fsObjs, flowsheets, mainfs, lcaItems, thermo, loadedCmps, lastRet>>
  /\ UNCHANGED OthersOfFS

\* Reactor = reactor_classes[reactor_type] (line 149) raises KeyError: the call ends
\* before its first statement
reactor_KeyError ==
  /\ fcall.fn = "create_system" /\ fpc = 1
  /\ fcall.reactor_type \notin reactor_classes
  /\ lastRet' = [fn |-> fcall.fn, ok |-> FALSE, sys_ID |-> "", flowsheet |-> mainfs]
  /\ fpc' = 0
  /\ fcall' = NoCall
  /\ UNCHANGED <<fsObjs, flowsheets, mainfs, lcaItems, thermo, loadedCmps, ncalls>>
  /\ UNCHANGED OthersOfFS

\* co2_sorbent/systems.py lines 42-44
ClearForReload ==
  /\ Running("clear")
  /\ IF Cur.ID \in DOMAIN flowsheets
     THEN /\ fsObjs' = [fsObjs EXCEPT ![flowsheets[Cur.ID]].reg =
                          Flowsheet_clear(fsObjs[flowsheets[Cur.ID]].reg)]
          /\ lcaItems' = clear_lca_registries
     ELSE UNCHANGED <<fsObjs, lcaItems>>
  /\ fpc' = fpc + 1
  /\ UNCHANGED <<fcall, flowsheets, mainfs, thermo, loadedCmps, ncalls, lastRet>>
  /\ UNCHANGED OthersOfFS

\* qs.Flowsheet(ID) followed by main_flowsheet.set_flowsheet (lines 45-47 and 152-153):
\* a new flowsheet takes the place of the one registered under the same ID
NewFlowsheet ==
  /\ Running("Flowsheet")
  /\ fcall.fn = "create_system" => fcall.reactor_type \in reactor_classes
  /\ IF fcall.flowsheet # 0
     THEN /\ mainfs' = fcall.flowsheet
          /\ UNCHANGED <<fsObjs, flowsheets>>
     ELSE /\ fsObjs' = Append(fsObjs, Flowsheet(Cur.ID))
          /\ flowsheets' = [k \in (DOMAIN flowsheets) \cup {Cur.ID} |->
                              IF k = Cur.ID THEN Len(fsObjs) + 1 ELSE flowsheets[k]]
          /\ mainfs' = Len(fsObjs) + 1
  /\ fpc' = fpc + 1
  /\ UNCHANGED <<fcall, lcaItems, thermo, loadedCmps, ncalls, lastRet>>
  /\ UNCHANGED OthersOfFS

\* co2_sorbent/__init__.py _load_components(reload=False)
_load_components ==
  /\ Running("_load_components")
  /\ IF "co2_sorbent" \notin loadedCmps
     THEN /\ thermo' = "co2_sorbent"
          /\ loadedCmps' = loadedCmps \cup {"co2_sorbent"}
     ELSE UNCHANGED <<thermo, loadedCmps>>
  /\ fpc' = fpc + 1
  /\ UNCHANGED <<fcall, fsObjs, flowsheets, mainfs, lcaItems, ncalls, lastRet>>
  /\ UNCHANGED OthersOfFS

\* pc.create_adm1_cmps() sets the ADM1 components as the ambient ones
create_adm1_cmps ==
  /\ Running("create_adm1_cmps")
  /\ thermo' = "adm1"
  /\ fpc' = fpc + 1
  /\ UNCHANGED <<fcall, fsObjs, flowsheets, mainfs, lcaItems, loadedCmps, ncalls, lastRet>>
  /\ UNCHANGED OthersOfFS

\* the component set a builder's streams are written in
ComponentsOf(fn) == IF fn = "create_system_A" THEN "co2_sorbent" ELSE "adm1"

\* qs.WasteStream(ID, ...) under the component set the flows are given in
WasteStream ==
  /\ Running("WasteStream")
  /\ thermo = ComponentsOf(fcall.fn)
  /\ RegisterInMain(<<"stream", Cur.ID>>)
  /\ fpc' = fpc + 1
  /\ UNCHANGED <<fcall, flowsheets, mainfs, lcaItems, thermo, loadedCmps, ncalls, lastRet>>
  /\ UNCHANGED OthersOfFS

\* qs.WasteStream(ID, ...) naming a component the ambient set does not have:
\* the exception ends the call
UndefinedComponent ==
  /\ Running("WasteStream")
  /\ thermo # ComponentsOf(fcall.fn)
  /\ lastRet' = [fn |-> fcall.fn, ok |-> FALSE, sys_ID |-> "", flowsheet |-> mainfs]
  /\ fpc' = 0
  /\ fcall' = NoCall
  /\ UNCHANGED <<fsObjs, flowsheets, mainfs, lcaItems, thermo, loadedCmps, ncalls>>
  /\ UNCHANGED OthersOfFS

\* construction of a unit: it is registered in the main flowsheet
ConstructBuilderUnit ==
  /\ Running("Unit")
  /\ fsObjs' = [fsObjs EXCEPT
                  ![mainfs].reg = Register(fsObjs[mainfs].reg, <<"unit", Cur.ID>>),
                  ![mainfs].unit = IF fcall.fn = "create_system"
                                   THEN [k \in (DOMAIN @) \cup {Cur.ID} |->
                                           IF k = Cur.ID THEN UnitArguments(Cur.ID) ELSE @[k]]
                                   ELSE @]
  /\ fpc' = fpc + 1
  /\ UNCHANGED <<fcall, flowsheets, mainfs, lcaItems, thermo, loadedCmps, ncalls, lastRet>>
  /\ UNCHANGED OthersOfFS

\* X.register_alias(alias)
register_alias ==
  /\ Running("register_alias")
  /\ RegisterInMain(<<"alias", Cur.ID>>)
  /\ fpc' = fpc + 1
  /\ UNCHANGED <<fcall, flowsheets, mainfs, lcaItems, thermo, loadedCmps, ncalls, lastRet>>
  /\ UNCHANGED OthersOfFS

\* qs.System(ID, path=...) / qs.System.from_units(ID, ...)
ConstructSystem ==
  /\ Running("System")
  /\ fsObjs' = [fsObjs EXCEPT
                  ![mainfs].reg = Register(fsObjs[mainfs].reg, <<"system", Cur.ID>>),
                  ![mainfs].system = IF fcall.fn = "create_system"
                                     THEN [k \in (DOMAIN @) \cup {Cur.ID} |->
                                             IF k = Cur.ID THEN SystemPath(Cur.ID) ELSE @[k]]
                                     ELSE @]
  /\ fpc' = fpc + 1
  /\ UNCHANGED <<fcall, flowsheets, mainfs, lcaItems, thermo, loadedCmps, ncalls, lastRet>>
  /\ UNCHANGED OthersOfFS

\* set_init_concs(unit): unit._concs = C0
set_init_concs ==
  /\ Running("set_init_concs")
  /\ fsObjs' = [fsObjs EXCEPT ![mainfs].unit[Cur.ID]._concs =
                  np_tile(fcall.reactor_type, fcall.n_layer, fcall.n_cstr)]
  /\ fpc' = fpc + 1
  /\ UNCHANGED <<fcall, flowsheets, mainfs, lcaItems, thermo, loadedCmps, ncalls, lastRet>>
  /\ UNCHANGED OthersOfFS

\* SIItm(ID=f'{ws.ID}_fugitive_ch4', linked_stream=ws, ...)
add_fugch4_iitm ==
  /\ Running("add_fugch4_iitm")
  /\ lcaItems' = Register(lcaItems, <<Cur.ID \o "_fugitive_ch4", 0>>)
  /\ fpc' = fpc + 1
  /\ UNCHANGED <<fcall, fsObjs, flowsheets, mainfs, thermo, loadedCmps, ncalls, lastRet>>
  /\ UNCHANGED OthersOfFS

\* SIItm(ID=f'{ws.ID}_NG_offset', linked_stream=ws, ...)
add_ngoffset_iitm ==
  /\ Running("add_ngoffset_iitm")
  /\ lcaItems' = Register(lcaItems, <<Cur.ID \o "_NG_offset", 0>>)
  /\ fpc' = fpc + 1
  /\ UNCHANGED <<fcall, fsObjs, flowsheets, mainfs, thermo, loadedCmps, ncalls, lastRet>>
  /\ UNCHANGED OthersOfFS

\* two SIItm(linked_stream=...) without an ID, on the unit's NaOCl and citric acid
add_chemicals_iitm ==
  /\ Running("add_chemicals_iitm")
  /\ lcaItems' = Register(Register(lcaItems, <<Cur.ID \o ".NaOCl", ncalls>>),
                          <<Cur.ID \o ".citric_acid", ncalls>>)
  /\ fpc' = fpc + 1
  /\ UNCHANGED <<fcall, fsObjs, flowsheets, mainfs, thermo, loadedCmps, ncalls, lastRet>>
  /\ UNCHANGED OthersOfFS

\* TEA(sys, ..., simulate_system=False) and LCA(sys, ..., simulate_system=False)
add_TEA_LCA ==
  /\ Running("add_TEA_LCA")
  /\ fsObjs' = [fsObjs EXCEPT ![mainfs].overlay = @ \cup {Cur.ID}]
  /\ fpc' = fpc + 1
  /\ UNCHANGED <<fcall, flowsheets, mainfs, lcaItems, thermo, loadedCmps, ncalls, lastRet>>
  /\ UNCHANGED OthersOfFS

\* sys.simulate()
SimulateBuilt ==
  /\ Running("simulate")
  /\ fsObjs' = [fsObjs EXCEPT ![mainfs].simulated = @ \cup {Cur.ID}]
  /\ fpc' = fpc + 1
  /\ UNCHANGED <<fcall, flowsheets, mainfs, lcaItems, thermo, loadedCmps, ncalls, lastRet>>
  /\ UNCHANGED OthersOfFS

\* return sys / return sys, sys_dg
ReturnSystem ==
  /\ Running("return")
  /\ lastRet' = [fn |-> fcall.fn, ok |-> TRUE, sys_ID |-> Cur.ID, flowsheet |-> mainfs]
  /\ fpc' = 0
  /\ fcall' = NoCall
  /\ UNCHANGED <<fsObjs, flowsheets, mainfs, lcaItems, thermo, loadedCmps, ncalls>>
  /\ UNCHANGED OthersOfFS

NextFS ==
  \/ Call_create_system_A
  \/ Call_create_system
  \/ ClearForReload
  \/ NewFlowsheet
  \/ _load_components
  \/ create_adm1_cmps
  \/ WasteStream
  \/ UndefinedComponent
  \/ ConstructBuilderUnit
  \/ register_alias
  \/ ConstructSystem
  \/ set_init_concs
  \/ add_fugch4_iitm
  \/ add_ngoffset_iitm
  \/ add_chemicals_iitm
  \/ add_TEA_LCA
  \/ SimulateBuilt
  \/ ReturnSystem

(***************************************************************************)
(* geospatial_analysis.py: the notebook cells that merge facility tables   *)
(* and loop over facilities.  Every cell reads its tables from files, so   *)
(* a cell starts from tables chosen freely within the bounds.  A table is  *)
(* a sequence of rows; a key stands for the cell's key columns.            *)
(***************************************************************************)
\* bound: number of rows of a table read from a file
MaxRows == 2

FacilityKeys == {1, 2}

NaN == "nan"

\* the left tables: at least one row
KeyTables == UNION {[1..n -> FacilityKeys] : n \in 1..MaxRows}

\* the right tables with values drawn from Vals
ValueTables(Vals) == UNION {[1..n -> [key : FacilityKeys, val : Vals]] : n \in 0..MaxRows}

KeysOf(T) == [i \in 1..Len(T) |-> T[i].key]

\* df[keys].duplicated().sum() of a sequence of keys
duplicated_sum(K) == Cardinality({j \in 1..Len(K) : \E i \in 1..(j - 1) : K[i] = K[j]})

\* left.merge(right, how='left', on=key): every left row once per matching right row,
\* once with a missing value when no right row matches
RECURSIVE merge_left(_, _)
merge_left(L, R) ==
  IF L = << >> THEN << >>
  ELSE LET m == SelectSeq(R, LAMBDA r : r.key = Head(L))
       IN  (IF m = << >> THEN << [key |-> Head(L), val |-> NaN] >> ELSE m)
           \o merge_left(Tail(L), R)

\* WRRF_input.dropna(subset='real_distance_km')
dropna(T) == SelectSeq(T, LAMBDA r : r.val # NaN)

\* the cell can start: nothing runs
CellIdle == gpc = "done"

\* what a driving-distance lookup can raise besides the KeyError of a response
\* without a distance
LookupErrors == {"IndexError", "ApiError", "Timeout"}

OthersOfGeo == <<varsPSA, varsFS, varsCAS, varsInt, varsCap, varsAttr>>

\* cell of lines 225-304 up to the first assertion: WRRF_input and the old dataset
RunDistanceCell ==
  /\ CellIdle
  /\ cell' = "distance"
  /\ \E L \in KeyTables, R \in ValueTables({NaN, "old"}) : left' = L /\ right' = R
  /\ merged' = << >> /\ gi' = 0 /\ gfail' = "" /\ exported' = << >>
  /\ gpc' = "assert"
  /\ UNCHANGED OthersOfGeo

\* cell of lines 743-757: input_data and the concatenated output_result
RunIntegrateCell ==
  /\ CellIdle
  /\ cell' = "integrate"
  /\ \E L \in KeyTables, R \in ValueTables({NaN, "nonpos", "pos"}) : left' = L /\ right' = R
  /\ merged' = << >> /\ gi' = 0 /\ gfail' = "" /\ exported' = << >>
  /\ gpc' = "assert"
  /\ UNCHANGED OthersOfGeo

\* cell of lines 1278-1304: the transposed uncertainty table, whose facility names were
\* column labels and are therefore distinct, and WRRF_PADD
RunRegionalCell ==
  /\ CellIdle
  /\ cell' = "regional"
  /\ \E L \in {K \in KeyTables : duplicated_sum(K) = 0}, R \in ValueTables({"PADD1", "PADD2"}) :
       left' = L /\ right' = R
  /\ merged' = << >> /\ gi' = 0 /\ gfail' = "" /\ exported' = << >>
  /\ gpc' = "merge"
  /\ UNCHANGED OthersOfGeo

\* cell of lines 639-739: the facilities the loop of line 678 runs over
RunAbatementCell ==
  /\ CellIdle
  /\ cell' = "abatement"
  /\ \E L \in KeyTables : left' = L
  /\ right' = << >> /\ merged' = << >> /\ gi' = 1 /\ gfail' = "" /\ exported' = << >>
  /\ gpc' = "loop"
  /\ UNCHANGED OthersOfGeo

\* cell of lines 1122-1216: the facilities the loop of line 1156 runs over
RunUncertaintyCell ==
  /\ CellIdle
  /\ cell' = "uncertainty"
  /\ \E L \in KeyTables : left' = L
  /\ right' = << >> /\ merged' = << >> /\ gi' = 1 /\ gfail' = "" /\ exported' = << >>
  /\ gpc' = "loop"
  /\ UNCHANGED OthersOfGeo

\* the two assert statements before a merge (lines 258-260 and 751-753)
AssertNoDuplicates ==
  /\ gpc = "assert"
  /\ IF duplicated_sum(KeysOf(right)) = 0 /\ duplicated_sum(left) = 0
     THEN /\ gpc' = "merge"
          /\ UNCHANGED gfail
     ELSE /\ gpc' = "done"
          /\ gfail' = "AssertionError"
  /\ UNCHANGED <<cell, left, right, merged, gi, exported>>
  /\ UNCHANGED OthersOfGeo

\* the left merge of lines 262, 755 and 1304
Merge ==
  /\ gpc = "merge"
  /\ merged' = merge_left(left, right)
  /\ gpc' = CASE cell = "distance" -> "loop"
              [] cell = "integrate" -> "export"
              [] OTHER -> "done"
  /\ gi' = IF cell = "distance" THEN 1 ELSE gi
  /\ UNCHANGED <<cell, left, right, gfail, exported>>
  /\ UNCHANGED OthersOfGeo

without_distance_from_cursor == {i \in 1..Len(merged) : i >= gi}

\* WRRF_input_without_distance.index from the cursor on: the rows still to look up
\* (the rows before the cursor are the only ones the loop has written)
without_distance == {i \in 1..Len(merged) : i >= gi /\ merged[i].val = NaN}

\* the row the loop of line 270 visits next (0: none left)
NextLookup ==
  IF without_distance = {} THEN 0
  ELSE CHOOSE i \in without_distance : \A j \in without_distance : i <= j

InDistanceLoop == cell = "distance" /\ gpc = "loop"

\* lines 272-276: the lookup returns a distance
DistanceFound ==
  /\ InDistanceLoop
  /\ NextLookup # 0
  /\ merged' = [merged EXCEPT ![NextLookup].val = "new"]
  /\ gi' = NextLookup + 1
  /\ UNCHANGED <<cell, gpc, left, right, gfail, exported>>
  /\ UNCHANGED OthersOfGeo

\* lines 277-279: the response holds no distance, the KeyError is caught
DistanceKeyError ==
  /\ InDistanceLoop
  /\ NextLookup # 0
  /\ merged' = [merged EXCEPT ![NextLookup].val = NaN]
  /\ gi' = NextLookup + 1
  /\ UNCHANGED <<cell, gpc, left, right, gfail, exported>>
  /\ UNCHANGED OthersOfGeo

\* lines 272-276: the lookup raises something the except clause does not name
DistanceLookupRaises ==
  /\ InDistanceLoop
  /\ NextLookup # 0
  /\ \E e \in LookupErrors : gfail' = e
  /\ gi' = NextLookup
  /\ gpc' = "done"
  /\ UNCHANGED <<cell, left, right, merged, exported>>
  /\ UNCHANGED OthersOfGeo

\* lines 285-304: rows without a distance are dropped, the rest is written
DropAndExport ==
  /\ InDistanceLoop
  /\ NextLookup = 0
  /\ exported' = dropna(merged)
  /\ gi' = Len(merged) + 1
  /\ gpc' = "done"
  /\ UNCHANGED <<cell, left, right, merged, gfail>>
  /\ UNCHANGED OthersOfGeo

USD_per_tonne_CO2_reduction_without_minus(CO2_reduction_result, NPV) ==
  IF CO2_reduction_result = "pos"
  THEN (IF NPV = "neg" THEN "nonpos" ELSE "pos")
  ELSE NaN

\* lines 708-711
USD_per_tonne_CO2_reduction(CO2_reduction_result, NPV) ==
  IF CO2_reduction_result = "pos"
  THEN (IF NPV = "neg" THEN "pos" ELSE "nonpos")
  ELSE NaN

\* a / b on a Python float
float_truediv(a, b) == IF b = "zero" THEN "ZeroDivisionError" ELSE a

\* a / b where b is a value read from a DataFrame (numpy.float64 or numpy.int64):
\* division by zero gives inf, -inf or nan, the warning being silenced at line 641
truediv(a, b) ==
  IF b = "zero"
  THEN CASE a = "pos" -> "inf" [] a = "neg" -> "-inf" [] OTHER -> NaN
  ELSE a

\* lines 680-726: one facility is built, simulated and its row appended; line 686
\* divides by flow_2022_MGD, lines 701 and 703 by biosolids_emission and total_emission
\* (a facility without flow has no sludge and no emission: one input stands for the three)
SimulateFacility ==
  /\ cell = "abatement" /\ gpc = "loop"
  /\ gi <= Len(left)
  /\ \E c \in {"pos", "zero", "neg"}, n \in {"neg", "nonneg"}, flow \in {"zero", "pos"} :
       LET ww_2_dry_sludge_ratio == truediv(flow, flow)
           sludge_CO2_reduction_ratio_result == truediv(c, flow)
       IN  IF "ZeroDivisionError" \in {ww_2_dry_sludge_ratio, sludge_CO2_reduction_ratio_result}
           THEN /\ gfail' = "ZeroDivisionError"
                /\ gpc' = "done"
                /\ UNCHANGED <<merged, gi>>
           ELSE /\ merged' = Append(merged,
                                [key |-> left[gi], CO2_reduction |-> c, NPV |-> n,
                                 biosolids_emission |-> flow,
                                 sludge_CO2_reduction_ratio |-> sludge_CO2_reduction_ratio_result,
                                 val |-> USD_per_tonne_CO2_reduction(c, n)])
                /\ gi' = gi + 1
                /\ UNCHANGED <<gpc, gfail>>
  /\ UNCHANGED <<cell, left, right, exported>>
  /\ UNCHANGED OthersOfGeo

\* lines 1158-1210: one facility is built, its model evaluated and its column assigned
\* (a column of the same facility name is replaced)
EvaluateFacility ==
  /\ cell = "uncertainty" /\ gpc = "loop"
  /\ gi <= Len(left)
  /\ merged' = IF \E j \in 1..Len(merged) : merged[j].key = left[gi]
               THEN merged
               ELSE Append(merged, [key |-> left[gi], val |-> "results"])
  /\ gi' = gi + 1
  /\ UNCHANGED <<cell, gpc, left, right, gfail, exported>>
  /\ UNCHANGED OthersOfGeo

\* a statement of the loop body raises (the system does not converge, a value is
\* missing for the facility's state): nothing in the loop catches it
FacilityRaises ==
  /\ cell \in {"abatement", "uncertainty"} /\ gpc = "loop"
  /\ gi <= Len(left)
  /\ gfail' = "Error"
  /\ gpc' = "done"
  /\ UNCHANGED <<cell, left, right, merged, gi, exported>>
  /\ UNCHANGED OthersOfGeo

\* the loop is over: gpc moves to the to_excel after it
EndLoop ==
  /\ cell \in {"abatement", "uncertainty"} /\ gpc = "loop"
  /\ gi > Len(left)
  /\ gpc' = "export"
  /\ UNCHANGED <<cell, left, right, merged, gi, gfail, exported>>
  /\ UNCHANGED OthersOfGeo

\* to_excel of lines 739, 757 and 1215-1216
ExportResults ==
  /\ gpc = "export"
  /\ exported' = merged
  /\ gpc' = "done"
  /\ UNCHANGED <<cell, left, right, merged, gi, gfail>>
  /\ UNCHANGED OthersOfGeo

\* df[df['USD_decarbonization'] <= 0] (lines 765 and 1004): a comparison with a missing
\* value is False
nonpositive(T) == SelectSeq(T, LAMBDA r : r.val = "nonpos")

\* lines 743-765: the results written by the abatement loop are merged onto input_data,
\* which may hold a facility the loop has produced no row for, and the integrated table
\* is filtered (`exported` holds the filtered decarbonization_result)
ReadDecarbonization ==
  /\ CellIdle
  /\ cell = "abatement" /\ gfail = ""
  /\ cell' = "decarbonization"
  /\ \E without_result \in {<< >>} \cup
        {<<[key |-> k, CO2_reduction |-> NaN, NPV |-> NaN, val |-> NaN]>> : k \in FacilityKeys} :
       LET integrated_result ==
             [i \in 1..Len(exported) |->
                [key |-> exported[i].key, CO2_reduction |-> exported[i].CO2_reduction,
                 NPV |-> exported[i].NPV, val |-> exported[i].val]] \o without_result
       IN  /\ merged' = integrated_result
           /\ exported' = nonpositive(dropna(integrated_result))
  /\ UNCHANGED <<gpc, left, right, gi, gfail>>
  /\ UNCHANGED OthersOfGeo

NextGeo ==
  \/ RunDistanceCell
  \/ RunIntegrateCell
  \/ RunRegionalCell
  \/ RunAbatementCell
  \/ RunUncertaintyCell
  \/ AssertNoDuplicates
  \/ Merge
  \/ DistanceFound
  \/ DistanceKeyError
  \/ DistanceLookupRaises
  \/ DropAndExport
  \/ SimulateFacility
  \/ EvaluateFacility
  \/ FacilityRaises
  \/ EndLoop
  \/ ExportResults

\* lines 353-357, travel distance box plot (per region): the five .loc assignments in order
PADD_distance ==
  << [isin |-> {"CT", "DC", "DE", "FL", "GA", "MA", "MD", "ME", "NC", "NH", "NJ", "NY", "PA", "RI", "SC", "VA", "VT", "WV"},
      WRRF_PADD |-> 1],
     [isin |-> {"IA", "IL", "IN", "KS", "KY", "MI", "MN", "MO", "ND", "NE", "OH", "OK", "SD", "TN", "WI"},
      WRRF_PADD |-> 2],
     [isin |-> {"AL", "AR", "LA", "MS", "NM", "TX"},
      WRRF_PADD |-> 3],
     [isin |-> {"CO", "ID", "MT", "UT", "WY"},
      WRRF_PADD |-> 4],
     [isin |-> {"AZ", "CA", "NV", "OR", "WA"},
      WRRF_PADD |-> 5] >>

PADD_regional_NM_in_PADD4 ==
  << [isin |-> {"CT", "DC", "DE", "FL", "GA", "MA", "MD", "ME", "NC", "NH", "NJ", "NY", "PA", "RI", "SC", "VA", "VT", "WV"},
      WRRF_PADD |-> 1],
     [isin |-> {"IA", "IL", "IN", "KS", "KY", "MI", "MN", "MO", "ND", "NE", "OH", "OK", "SD", "TN", "WI"},
      WRRF_PADD |-> 2],
     [isin |-> {"AL", "AR", "LA", "MS", "TX"},
      WRRF_PADD |-> 3],
     [isin |-> {"CO", "ID", "MT", "UT", "WY", "NM"},
      WRRF_PADD |-> 4],
     [isin |-> {"AZ", "CA", "NV", "OR", "WA"},
      WRRF_PADD |-> 5] >>

\* lines 996-1000, regional level analysis: the five .loc assignments in order
PADD_regional ==
  << [isin |-> {"CT", "DC", "DE", "FL", "GA", "MA", "MD", "ME", "NC", "NH", "NJ", "NY", "PA", "RI", "SC", "VA", "VT", "WV"},
      WRRF_PADD |-> 1],
     [isin |-> {"IA", "IL", "IN", "KS", "KY", "MI", "MN", "MO", "ND", "NE", "OH", "OK", "SD", "TN", "WI"},
      WRRF_PADD |-> 2],
     [isin |-> {"AL", "AR", "LA", "MS", "NM", "TX"},
      WRRF_PADD |-> 3],
     [isin |-> {"CO", "ID", "MT", "UT", "WY"},
      WRRF_PADD |-> 4],
     [isin |-> {"AZ", "CA", "NV", "OR", "WA"},
      WRRF_PADD |-> 5] >>

\* lines 1287-1291, regional uncertainty: the five .loc assignments in order
PADD_uncertainty ==
  << [isin |-> {"CT", "DC", "DE", "FL", "GA", "MA", "MD", "ME", "NC", "NH", "NJ", "NY", "PA", "RI", "SC", "VA", "VT", "WV"},
      WRRF_PADD |-> 1],
     [isin |-> {"IA", "IL", "IN", "KS", "KY", "MI", "MN", "MO", "ND", "NE", "OH", "OK", "SD", "TN", "WI"},
      WRRF_PADD |-> 2],
     [isin |-> {"AL", "AR", "LA", "MS", "NM", "TX"},
      WRRF_PADD |-> 3],
     [isin |-> {"CO", "ID", "MT", "UT", "WY"},
      WRRF_PADD |-> 4],
     [isin |-> {"AZ", "CA", "NV", "OR", "WA"},
      WRRF_PADD |-> 5] >>

\* ---------------------------------------------------------------------------
\* geospatial_analysis.py: the assignment of a PADD to every facility
\* ---------------------------------------------------------------------------

\* values of the column 'state': the fifty states, DC and Puerto Rico
StateCodes ==
  {"AL", "AK", "AZ", "AR", "CA", "CO", "CT", "DE", "FL", "GA", "HI", "ID", "IL", "IN",
   "IA", "KS", "KY", "LA", "ME", "MD", "MA", "MI", "MN", "MS", "MO", "MT", "NE", "NV",
   "NH", "NJ", "NM", "NY", "NC", "ND", "OH", "OK", "OR", "PA", "RI", "SC", "SD", "TN",
   "TX", "UT", "VT", "VA", "WA", "WV", "WI", "WY", "DC", "PR"}

\* df.loc[df['state'].isin(list), 'WRRF_PADD'] = n, five times in order: the column is
\* missing where no list holds the state, and a later assignment replaces an earlier one
WRRF_PADD(lists, state) ==
  LET hits == {k \in 1..Len(lists) : state \in lists[k].isin}
  IN  IF hits = {} THEN NaN
      ELSE lists[CHOOSE k \in hits : \A j \in hits : j <= k].WRRF_PADD

PADDCells == {"PADD_distance", "PADD_regional", "PADD_uncertainty"}

\* lines 351, 994 and 1279-1285: the table the assignments are applied to; they work
\* row by row, one row stands for the table
RunPADDCell ==
  /\ CellIdle
  /\ cell' \in PADDCells
  /\ \E s \in StateCodes : left' = <<s>>
  /\ right' = << >> /\ merged' = << >> /\ gi' = 0 /\ gfail' = "" /\ exported' = << >>
  /\ gpc' = "assign"
  /\ UNCHANGED OthersOfGeo

\* lines 353-357, 996-1000 and 1287-1291
AssignPADD ==
  /\ cell \in PADDCells /\ gpc = "assign"
  /\ LET lists == CASE cell = "PADD_distance" -> PADD_distance
                    [] cell = "PADD_regional" -> PADD_regional
                    [] OTHER -> PADD_uncertainty
     IN  merged' = [i \in 1..Len(left) |->
                      [key |-> left[i], val |-> WRRF_PADD(lists, left[i])]]
  /\ gpc' = "done"
  /\ UNCHANGED <<cell, left, right, gi, gfail, exported>>
  /\ UNCHANGED OthersOfGeo

NextPADD ==
  \/ RunPADDCell
  \/ AssignPADD

\* ---------------------------------------------------------------------------
\* geospatial_analysis.py: cumulative WRRFs capacity vs distances (lines 480-510)
\* ---------------------------------------------------------------------------

\* max_distance of line 487 (1500 in the script)
max_distance == 1

\* refinery.site_id: the refineries, without duplicates
RefineryTables == {<<1>>, <<2>>, <<1, 2>>}

\* WRRF_input: the nearest refinery of a facility is one of `ids`, its distance may
\* exceed max_distance, its flow is positive
WRRFTables(ids) ==
  UNION {[1..n -> [site_id : ids, linear_distance_km : 0..(max_distance + 1),
                   flow_2022_MGD : {1, 2}]] : n \in 0..MaxRows}

\* WRRF_input[['site_id']].drop_duplicates() (line 485): first occurrences, in order
drop_duplicates(T) ==
  LET first == {i \in 1..Len(T) : \A j \in 1..(i - 1) : T[j].site_id # T[i].site_id}
      nth(k) == CHOOSE i \in first : Cardinality({j \in first : j <= i}) = k
  IN  [k \in 1..Cardinality(first) |-> T[nth(k)].site_id]

\* lines 489-491: rows within `distance`, summed by site_id (a site without such a row
\* is absent: 0 stands for the missing value that line 497 fills with 0)
groupby_sum(T, site, distance) ==
  LET rows == {i \in 1..Len(T) : T[i].site_id = site /\ T[i].linear_distance_km <= distance}
  IN  SumOver([i \in rows |-> T[i].flow_2022_MGD], rows)

\* lines 488-497: one column per distance that has at least one facility within it
\* (line 494), one row per site_id of WRRF_input
cumulative_capacity(T) ==
  LET columns == {d \in 0..max_distance : \E i \in 1..Len(T) : T[i].linear_distance_km <= d}
      sites == drop_duplicates(T)
  IN  [k \in 1..Len(sites) |->
         [site_id |-> sites[k], MGD |-> [d \in columns |-> groupby_sum(T, sites[k], d)]]]

\* result.loc[item] = [0]*len(result.columns) (line 506): the row of label `item` is
\* replaced when there is one and appended otherwise
loc_zeros(result, item) ==
  LET zeros == [site_id |-> item,
                MGD |-> [d \in (IF result = << >> THEN {} ELSE DOMAIN result[1].MGD) |-> 0]]
  IN  IF \E k \in 1..Len(result) : result[k].site_id = item
      THEN [k \in 1..Len(result) |-> IF result[k].site_id = item THEN zeros ELSE result[k]]
      ELSE Append(result, zeros)

RECURSIVE loc_zeros_all(_, _)
loc_zeros_all(result, items) ==
  IF items = {} THEN result
  ELSE LET item == CHOOSE x \in items : \A y \in items : x <= y
       IN  loc_zeros_all(loc_zeros(result, item), items \ {item})

OthersOfCapacity == <<varsPSA, varsFS, varsCAS, varsInt, varsAttr>>

\* line 484 (and line 101 for refinery): the inputs of the cell
RunCapacityCell ==
  /\ CellIdle
  /\ cell' = "capacity"
  /\ \E R \in RefineryTables : \E T \in WRRFTables(Range(R)) : right' = R /\ left' = T
  /\ merged' = << >> /\ gi' = 0 /\ gfail' = "" /\ exported' = << >>
  /\ gpc' = "cumulate"
  /\ UNCHANGED refineries_left_id
  /\ UNCHANGED OthersOfCapacity

\* lines 485-497
CumulateCapacity ==
  /\ cell = "capacity" /\ gpc = "cumulate"
  /\ merged' = cumulative_capacity(left)
  /\ gpc' = "left"
  /\ UNCHANGED <<cell, left, right, gi, gfail, exported, refineries_left_id>>
  /\ UNCHANGED OthersOfCapacity

\* lines 499-506: refineries_left_id is assigned only under the `if` of line 499; the
\* loop of line 505 reads the name whether it was assigned or not
RefineriesLeft ==
  /\ cell = "capacity" /\ gpc = "left"
  /\ LET name == IF Len(merged) < Len(right)
                 THEN [bound |-> TRUE,
                       values |-> Range(right) \ {merged[k].site_id : k \in 1..Len(merged)}]
                 ELSE refineries_left_id
     IN  IF ~name.bound
         THEN /\ gfail' = "NameError"
              /\ gpc' = "done"
              /\ UNCHANGED <<merged, refineries_left_id>>
         ELSE /\ refineries_left_id' = name
              /\ merged' = loc_zeros_all(merged, name.values)
              /\ gpc' = "export"
              /\ UNCHANGED gfail
  /\ UNCHANGED <<cell, left, right, gi, exported>>
  /\ UNCHANGED OthersOfCapacity

\* lines 508-510: the refinery columns are joined and the table is written
ExportCapacity ==
  /\ cell = "capacity" /\ gpc = "export"
  /\ exported' = merged
  /\ gpc' = "done"
  /\ UNCHANGED <<cell, left, right, merged, gi, gfail, refineries_left_id>>
  /\ UNCHANGED OthersOfCapacity

NextCapacity ==
  \/ RunCapacityCell
  \/ CumulateCapacity
  \/ RefineriesLeft
  \/ ExportCapacity

(***************************************************************************)
(* cas/__init__.py: _load_components, _load_system and load (lines 29-54)  *)
(***************************************************************************)
\* bound: number of calls made to the three functions
MaxCasCalls == 6

\* def _load_components(reload=False) (lines 32-37)
cas_load_components ==
  /\ casCalls < MaxCasCalls
  /\ casCalls' = casCalls + 1
  /\ \E reload \in BOOLEAN :
       IF ~_components_loaded \/ reload
       THEN /\ components' = components + 1
            /\ _components_loaded' = TRUE
       ELSE UNCHANGED <<components, _components_loaded>>
  /\ UNCHANGED <<sys, _system_loaded, simulated>>
  /\ UNCHANGED <<varsPSA, varsFS, varsGeo, varsInt, varsCap, varsAttr>>

\* def _load_system() (lines 43-46); create_system() needs the ambient components that
\* only _load_components sets: without them it raises and nothing is assigned
cas_load_system ==
  /\ casCalls < MaxCasCalls
  /\ casCalls' = casCalls + 1
  /\ IF components # 0
     THEN /\ sys' = components
          /\ _system_loaded' = TRUE
     ELSE UNCHANGED <<sys, _system_loaded>>
  /\ UNCHANGED <<components, _components_loaded, simulated>>
  /\ UNCHANGED <<varsPSA, varsFS, varsGeo, varsInt, varsCap, varsAttr>>

\* def load() (lines 49-54)
cas_load ==
  /\ casCalls < MaxCasCalls
  /\ casCalls' = casCalls + 1
  /\ LET cmps == IF ~_components_loaded THEN components + 1 ELSE components
         built == IF ~_system_loaded THEN cmps ELSE sys
     IN  /\ components' = cmps
         /\ _components_loaded' = TRUE
         /\ sys' = built
         /\ _system_loaded' = TRUE
         /\ simulated' = <<built, cmps>>
  /\ UNCHANGED <<varsPSA, varsFS, varsGeo, varsInt, varsCap, varsAttr>>

\* what __getattr__ returns once both flags are set: the body ends after the `if`
getattr_loaded == "None"

\* def __getattr__(name) (lines 57-60), called by Python for a name that is not in the
\* module's globals
cas_getattr ==
  /\ cas_attr' = IF ~_components_loaded \/ ~_system_loaded
                 THEN "AttributeError: not yet loaded"
                 ELSE getattr_loaded
  /\ UNCHANGED <<varsCAS, varsPSA, varsFS, varsGeo, varsInt, varsCap>>

NextCAS ==
  \/ cas_getattr
  \/ cas_load_components
  \/ cas_load_system
  \/ cas_load

(***************************************************************************)
(* interface/system.py: the module-level script (lines 18-42).  ipc is the *)
(* line of the statement that runs next.  exposan.bsm1 is not among the    *)
(* sources: what its import leaves behind is taken from the uses this      *)
(* script makes of it (the ASM1 components are ambient, RWW is the second  *)
(* inlet of A1, WAS is an outlet of C1 with no sink) and its other units   *)
(* and the number of inlets of A1 are inputs.                              *)
(***************************************************************************)
OthersOfInterface ==
  <<varsPSA, varsGeo, varsCAS, varsCap, varsAttr, fpc, fcall, fsObjs, flowsheets, mainfs, lcaItems,
    loadedCmps, ncalls, lastRet>>

\* from exposan.bsm1 import bsm1 as bsm1_sys, A1, C1, RE as RWW, WAS (line 18)
import_bsm1 ==
  /\ ipc = 18
  /\ \E others \in SUBSET {"A2", "O1", "O2", "O3"}, RAS \in {<<>>, <<"RAS">>} :
       /\ bsm1_units' = <<"A1">>
                          \o SelectSeq(<<"A2", "O1", "O2", "O3">>, LAMBDA x : x \in others)
                          \o <<"C1">>
       /\ created' = [x \in {"A1", "C1"} \cup others |-> "asm1"]
       /\ A1_ins' = <<"wastewater", "RWW">> \o RAS
  /\ isink' = [isink EXCEPT !["RWW"] = {"A1"}]
  /\ thermo' = "asm1"
  /\ ipc' = 21
  /\ UNCHANGED <<saved, ipath>>
  /\ UNCHANGED OthersOfInterface

\* thermo_asm1 = qs.get_thermo() (line 21)
get_thermo_asm1 ==
  /\ ipc = 21
  /\ saved' = [saved EXCEPT !.thermo_asm1 = thermo]
  /\ ipc' = 24
  /\ UNCHANGED <<thermo, created, isink, A1_ins, ipath, bsm1_units>>
  /\ UNCHANGED OthersOfInterface

\* cmps_adm1 = qs.processes.create_adm1_cmps(); thermo_adm1 = qs.get_thermo() (24-25)
cmps_adm1 ==
  /\ ipc = 24
  /\ thermo' = "adm1"
  /\ saved' = [saved EXCEPT !.thermo_adm1 = "adm1"]
  /\ ipc' = 26
  /\ UNCHANGED <<created, isink, A1_ins, ipath, bsm1_units>>
  /\ UNCHANGED OthersOfInterface

\* the unit ID is constructed under the ambient components and takes the streams `ins`
ConstructedWith(ID, ins) ==
  /\ created' = [x \in (DOMAIN created) \cup {ID} |-> IF x = ID THEN thermo ELSE created[x]]
  /\ isink' = [s \in DOMAIN isink |-> IF s \in ins THEN isink[s] \cup {ID} ELSE isink[s]]

\* J1 = ASMtoADM('J1', upstream=WAS, thermo=thermo_adm1, isdynamic=True) (line 26)
J1 ==
  /\ ipc = 26
  /\ ConstructedWith("J1", {"WAS"})
  /\ ipc' = 27
  /\ UNCHANGED <<thermo, saved, A1_ins, ipath, bsm1_units>>
  /\ UNCHANGED OthersOfInterface

\* AD1 = qs.sanunits.AnaerobicCSTR('AD1', ins=J1.outs[0], outs=('biogas', 'ad_eff'), ...)
AD1 ==
  /\ ipc = 27
  /\ ConstructedWith("AD1", {"J1.outs[0]"})
  /\ ipc' = 28
  /\ UNCHANGED <<thermo, saved, A1_ins, ipath, bsm1_units>>
  /\ UNCHANGED OthersOfInterface

\* J2 = ADMtoASM('J2', upstream=AD1-1, thermo=thermo_asm1, isdynamic=True) (line 28)
J2 ==
  /\ ipc = 28
  /\ ConstructedWith("J2", {"ad_eff"})
  /\ ipc' = 31
  /\ UNCHANGED <<thermo, saved, A1_ins, ipath, bsm1_units>>
  /\ UNCHANGED OthersOfInterface

\* a script that makes the ADM1 components ambient again at line 31
set_thermo_adm1 ==
  /\ ipc = 31
  /\ thermo' = saved.thermo_adm1
  /\ ipc' = 32
  /\ UNCHANGED <<saved, created, isink, A1_ins, ipath, bsm1_units>>
  /\ UNCHANGED OthersOfInterface

\* qs.set_thermo(thermo_asm1) (line 31)
set_thermo ==
  /\ ipc = 31
  /\ thermo' = saved.thermo_asm1
  /\ ipc' = 32
  /\ UNCHANGED <<saved, created, isink, A1_ins, ipath, bsm1_units>>
  /\ UNCHANGED OthersOfInterface

\* RWW.disconnect_sink() (line 32): the inlet of the sink gets an empty stream of its own
disconnect_sink ==
  /\ ipc = 32
  /\ isink' = [isink EXCEPT !["RWW"] = {}]
  /\ A1_ins' = [i \in DOMAIN A1_ins |-> IF A1_ins[i] = "RWW" THEN "" ELSE A1_ins[i]]
  /\ ipc' = 33
  /\ UNCHANGED <<thermo, saved, created, ipath, bsm1_units>>
  /\ UNCHANGED OthersOfInterface

\* M1 = qs.sanunits.Mixer('M1', ins=[RWW, J2.outs[0]], isdynamic=True) (line 33): a
\* stream that still has a sink is taken from it
M1 ==
  /\ ipc = 33
  /\ created' = [x \in (DOMAIN created) \cup {"M1"} |->
                   IF x = "M1" THEN thermo ELSE created[x]]
  /\ isink' = [s \in DOMAIN isink |->
                 IF s \in {"RWW", "J2.outs[0]"} THEN {"M1"} ELSE isink[s]]
  /\ A1_ins' = [i \in DOMAIN A1_ins |-> IF A1_ins[i] = "RWW" THEN "" ELSE A1_ins[i]]
  /\ ipc' = 34
  /\ UNCHANGED <<thermo, saved, ipath, bsm1_units>>
  /\ UNCHANGED OthersOfInterface

\* A1.ins[1] = M1.outs[0] (line 34)
A1_ins_1 ==
  /\ ipc = 34
  /\ A1_ins' = [A1_ins EXCEPT ![2] = "M1.outs[0]"]
  /\ isink' = [isink EXCEPT !["M1.outs[0]"] = {"A1"}]
  /\ ipc' = 36
  /\ UNCHANGED <<thermo, saved, created, ipath, bsm1_units>>
  /\ UNCHANGED OthersOfInterface

\* sys = System(path=(*bsm1_sys.units, J1, AD1, J2, M1)) and its simulation (36-42)
System_path ==
  /\ ipc = 36
  /\ ipath' = bsm1_units \o <<"J1", "AD1", "J2", "M1">>
  /\ ipc' = 43
  /\ UNCHANGED <<thermo, saved, created, isink, A1_ins, bsm1_units>>
  /\ UNCHANGED OthersOfInterface

NextInterface ==
  \/ import_bsm1
  \/ get_thermo_asm1
  \/ cmps_adm1
  \/ J1
  \/ AD1
  \/ J2
  \/ set_thermo
  \/ disconnect_sink
  \/ M1
  \/ A1_ins_1
  \/ System_path

(***************************************************************************)
(* Specifications: every program starts before its first statement         *)
(***************************************************************************)
Init ==
  /\ pc = 1
  /\ units = <<>>
  /\ source = [s \in Streams |-> {}]
  /\ sink = [s \in Streams |-> {}]
  /\ attrs = [t \in Attrs |-> None]
  /\ overlay = <<>>
  /\ aliases = {}
  /\ path = <<>>
  /\ simCount = 0
  /\ nparams = 0
  /\ loaded = 0
  /\ doneRows = <<>>
  /\ row = 0
  /\ order = "forward"
  /\ pos = 0
  /\ rowSim = FALSE
  /\ evalCount = 0
  /\ nmetrics = 0
  /\ flows = [q \in Quantities |-> 0]
  /\ table = [columns |-> <<>>, rows |-> <<>>]
  /\ sheets = [name \in {} |-> 0]
  /\ fpc = 0
  /\ fcall = NoCall
  /\ fsObjs = <<>>
  /\ flowsheets = EmptyRegistry
  /\ mainfs = 0
  /\ lcaItems = EmptyRegistry
  /\ thermo = "none"
  /\ loadedCmps = {}
  /\ ncalls = 0
  /\ lastRet = NoReturn
  /\ cell = ""
  /\ gpc = "done"
  /\ left = <<>>
  /\ right = <<>>
  /\ merged = <<>>
  /\ gi = 0
  /\ gfail = ""
  /\ exported = <<>>
  /\ components = 0
  /\ sys = 0
  /\ _components_loaded = FALSE
  /\ _system_loaded = FALSE
  /\ simulated = <<0, 0>>
  /\ casCalls = 0
  /\ ipc = 18
  /\ saved = [thermo_asm1 |-> "none", thermo_adm1 |-> "none"]
  /\ created = [x \in {} |-> ""]
  /\ isink = [s \in {"RWW", "WAS", "J1.outs[0]", "ad_eff", "J2.outs[0]", "M1.outs[0]"} |-> {}]
  /\ A1_ins = <<>>
  /\ ipath = <<>>
  /\ bsm1_units = <<>>
  /\ refineries_left_id = [bound |-> FALSE, values |-> {}]
  /\ cas_attr = "no access"

SpecPSA == Init /\ [][NextPSA]_vars

SpecFS == Init /\ [][NextFS]_vars

SpecGeo == Init /\ [][NextGeo]_vars

\* the construction of both flowsheets side by side: the script up to qs.System, and
\* calls of create_system_A
NextConstruction ==
  \/ ConstructUnit
  \/ AttachItem
  \/ RegisterAliases
  \/ CreateSystem
  \/ Call_create_system_A
  \/ ClearForReload
  \/ NewFlowsheet
  \/ _load_components
  \/ WasteStream
  \/ ConstructBuilderUnit
  \/ register_alias
  \/ ConstructSystem
  \/ SimulateBuilt
  \/ ReturnSystem

SpecConstruction == Init /\ [][NextConstruction]_vars

\* the cell '#%% CO2 abatement cost analysis' alone, run any number of times
NextAbatement ==
  \/ RunAbatementCell
  \/ SimulateFacility
  \/ FacilityRaises
  \/ EndLoop
  \/ ExportResults

SpecAbatement == Init /\ [][NextAbatement]_vars

\* the cell '#%% transportation distance calculation' alone, run any number of times
NextDistance ==
  \/ RunDistanceCell
  \/ AssertNoDuplicates
  \/ Merge
  \/ DistanceFound
  \/ DistanceKeyError
  \/ DistanceLookupRaises
  \/ DropAndExport

SpecDistance == Init /\ [][NextDistance]_vars

\* the cells that assign WRRF_PADD, run any number of times
SpecPADD == Init /\ [][NextPADD]_vars

\* the cell '#%% cumulative WRRFs capacity vs distances', run any number of times in one
\* interpreter session
SpecCapacity == Init /\ [][NextCapacity]_vars

\* the abatement cell followed by the cells that integrate and filter its results
NextDecarbonization ==
  \/ RunAbatementCell
  \/ SimulateFacility
  \/ FacilityRaises
  \/ EndLoop
  \/ ExportResults
  \/ ReadDecarbonization

SpecDecarbonization == Init /\ [][NextDecarbonization]_vars

\* calls of metab create_system with arguments outside the documented ones
NextInvalid ==
  \/ Call_create_system_invalid
  \/ reactor_KeyError
  \/ NewFlowsheet
  \/ create_adm1_cmps
  \/ WasteStream
  \/ ConstructBuilderUnit
  \/ ConstructSystem
  \/ set_init_concs
  \/ add_fugch4_iitm
  \/ add_ngoffset_iitm
  \/ add_chemicals_iitm
  \/ add_TEA_LCA
  \/ ReturnSystem

SpecInvalid == Init /\ [][NextInvalid]_vars

\* calls of metab create_system over the reactor classes and feeds
NextMetab ==
  \/ Call_create_system_sized
  \/ NewFlowsheet
  \/ create_adm1_cmps
  \/ WasteStream
  \/ ConstructBuilderUnit
  \/ ConstructSystem
  \/ set_init_concs
  \/ add_fugch4_iitm
  \/ add_ngoffset_iitm
  \/ add_chemicals_iitm
  \/ add_TEA_LCA
  \/ ReturnSystem

SpecMetab == Init /\ [][NextMetab]_vars

SpecInterface == Init /\ [][NextInterface]_vars

SpecCAS == Init /\ [][NextCAS]_vars

(***************************************************************************)
(* Claims about system_PSA.py (checked under SpecPSA)                      *)
(***************************************************************************)
PathPos(u) == IndexOf(path, u)

\* the units wired to an outlet of unit u
ConsumersOf(u) ==
  {c[1] : c \in UNION {sink[s] : s \in {x \in DOMAIN source : \E o \in source[x] : o[1] = u}}}

\* the two splitters the script sizes from the demand of their consumers
DemandDrivenSplitters == {"SP1", "RSP1"}

\* C1 (as stated): in the simulation path every inlet of every unit is an external feed,
\* a declared recycle, or the outlet of a unit that appears earlier in the path.
C1_InletsFromEarlierUnits ==
  path # <<>> =>
    \A i \in 1..Len(path) :
      \A s \in InletStreams(UnitIndex(path[i])) :
        \/ s \in sys_PSA_recycle
        \/ \A o \in source[s] : PathPos(o[1]) \in 1..(i - 1)

\* C1 (amended): every inlet of every path unit is an external feed or the outlet of an
\* earlier path unit, except the outlets of the splitters SP1 and RSP1, each of which
\* stands in the path after all the units that consume its outlets; no recycle is declared.
C1_InletsFromEarlierUnitsOrSplitters ==
  path # <<>> =>
    /\ sys_PSA_recycle = {}
    /\ \A i \in 1..Len(path) :
         \A s \in InletStreams(UnitIndex(path[i])) :
           \A o \in source[s] :
             \/ PathPos(o[1]) \in 1..(i - 1)
             \/ /\ o[1] \in DemandDrivenSplitters
                /\ PathPos(o[1]) > i
                /\ \A c \in ConsumersOf(o[1]) : PathPos(c) \in 1..(PathPos(o[1]) - 1)

\* the path exists; AcidEx consumes an outlet of SP1, which stands later in the path,
\* and H1 consumes the outlet of P1, which stands earlier
C1_Witness ==
  /\ path # <<>>
  /\ <<"SP1", 0>> \in source["H2SO4_P"]
  /\ <<"AcidEx", 1>> \in sink["H2SO4_P"]
  /\ PathPos("AcidEx") < PathPos("SP1")
  /\ <<"P1", 0>> \in source["press_sludge"]
  /\ <<"H1", 0>> \in sink["press_sludge"]
  /\ PathPos("P1") < PathPos("H1")

Changed == {t \in DOMAIN attrs : attrs'[t] # attrs[t]}

SetterStep == row # 0 /\ pos' = pos + 1

\* C3 (as stated): every setter writes exactly one attribute of one object and leaves every
\* other unit attribute, stream price, system attribute and class-level setting unchanged.
C3_SetterWritesOneAttribute ==
  [][SetterStep => Cardinality(Changed) = 1]_vars

TwoTargetSetters == {"set_operation_hour", "set_HT_HC_catalyst_price"}

\* C3 (amended): every setter assigns the sampled value to exactly the attributes it names
\* and leaves every other attribute unchanged; it names one attribute, except
\* set_operation_hour and set_HT_HC_catalyst_price, which name two.
C3_SetterWritesItsTargets ==
  [][SetterStep =>
       LET p == ParamAt(order, pos')
       IN  /\ Changed = Targets(p)
           /\ \A t \in Changed : attrs'[t] = RowVal(row, p)
           /\ Cardinality(Changed) = IF SetterOf(p) \in TwoTargetSetters THEN 2 ELSE 1]_vars

\* set_operation_hour (parameter 12) has run in the current row and wrote both the unit's
\* and the system's hours, while the price of hydrogen is still the one constructed
C3_Witness ==
  /\ row # 0
  /\ order = "forward"
  /\ pos = 12
  /\ SetterOf(12) = "set_operation_hour"
  /\ attrs[U("WWTP", "operation_hours")] = RowVal(row, 12)
  /\ attrs[SysAttr("operating_hours")] = RowVal(row, 12)
  /\ attrs[Price("H2")] = Built

\* C4: once all setters of a sample row have run, every parameterised attribute holds the
\* value of that row, whatever rows ran before and in whichever order the setters ran;
\* no two parameters write the same attribute.
C4_RowValuesHold ==
  /\ (row # 0 /\ nparams = NParams /\ pos = nparams) =>
       /\ \A p \in 1..NParams : \A t \in Targets(p) : attrs[t] = RowVal(row, p)
       /\ \A p, q \in 1..NParams : p # q => Targets(p) \cap Targets(q) = {}
  /\ (row = 0 /\ doneRows # <<>>) =>
       \A p \in 1..NParams : \A t \in Targets(p) :
         attrs[t] = RowVal(doneRows[Len(doneRows)], p)

\* a second row has been applied completely, in reverse order, after another row
C4_Witness ==
  /\ row # 0
  /\ Len(doneRows) >= 1
  /\ order = "reverse"
  /\ pos = NParams
  /\ attrs[CF("RO_item", "Acidification")] = RowVal(row, NScalar + 1)

\* C10: every stream is the outlet of at most one unit port and the inlet of at most one
\* unit port; the acid and the hydrogen that two units share reach them through the
\* splitters SP1 and RSP1.
C10_OnePortPerStream ==
  /\ \A s \in DOMAIN source : Cardinality(source[s]) <= 1 /\ Cardinality(sink[s]) <= 1
  /\ sink["H2SO4_out"] \subseteq {<<"SP1", 0>>}
  /\ sink["H2"] \subseteq {<<"RSP1", 0>>}

\* all units are wired: each outlet of the acid splitter has its one consumer
C10_Witness ==
  /\ Len(units) = NUnits
  /\ source["H2SO4_P"] = {<<"SP1", 0>>} /\ sink["H2SO4_P"] = {<<"AcidEx", 1>>}
  /\ source["H2SO4_N"] = {<<"SP1", 1>>} /\ sink["H2SO4_N"] = {<<"MemDis", 1>>}
  /\ sink["H2SO4_out"] = {<<"SP1", 0>>}

(***************************************************************************)
(* Claims about the flowsheet builders (checked under SpecFS)              *)
(***************************************************************************)
\* the flowsheet objects created under one ID, replaced ones included
ObjsWithID(id) == {i \in 1..Len(fsObjs) : fsObjs[i].ID = id}

\* number of registrations of `key` that the flowsheet objects of one ID still hold
Registrations(id, key) ==
  SumOver([i \in ObjsWithID(id) |->
             IF key \in DOMAIN fsObjs[i].reg THEN fsObjs[i].reg[key] ELSE 0],
          ObjsWithID(id))

KindOf(op) ==
  CASE op = "WasteStream" -> "stream"
    [] op = "Unit" -> "unit"
    [] op = "register_alias" -> "alias"
    [] op = "System" -> "system"
    [] OTHER -> ""

\* what one complete run of create_system_A registers
KeysOf_create_system_A ==
  {<<KindOf(create_system_A[i].op), create_system_A[i].ID>> :
     i \in {j \in 1..Len(create_system_A) : KindOf(create_system_A[j].op) # ""}}

\* C8: every call of create_system_A after the first clears the flowsheet registered as
\* 'ALF_A' and the LCA registries before it constructs anything; after every call that
\* returns, each stream, unit, alias and system ID of the flowsheet is registered exactly
\* once and the main flowsheet is the one the call built.
C8_RebuildRegistersOnce ==
  /\ (fcall.fn = "create_system_A" /\ fpc = 2) =>
       /\ \A i \in ObjsWithID(flowsheet_ID) : fsObjs[i].reg = EmptyRegistry
       /\ ObjsWithID(flowsheet_ID) # {} => lcaItems = EmptyRegistry
  /\ (fpc = 0 /\ lastRet.fn = "create_system_A" /\ lastRet.ok) =>
       /\ mainfs = Len(fsObjs)
       /\ mainfs = lastRet.flowsheet
       /\ flowsheets[flowsheet_ID] = mainfs
       /\ DOMAIN fsObjs[mainfs].reg = KeysOf_create_system_A
       /\ \A key \in KeysOf_create_system_A : Registrations(flowsheet_ID, key) = 1

\* create_system_A has returned for the second time: two flowsheet objects were created
\* as 'ALF_A', and the first mixer is registered once
C8_Witness ==
  /\ fpc = 0
  /\ lastRet.fn = "create_system_A" /\ lastRet.ok
  /\ Cardinality(ObjsWithID(flowsheet_ID)) >= 2
  /\ Registrations(flowsheet_ID, <<"unit", "feed_mixer_1">>) = 1
  /\ fsObjs[mainfs].simulated = {"sys_ALF_A"}

\* C9 (as stated): when create_system is called again with the same reactor_type, n_stages
\* and gas_extraction, the registrations of the earlier build of that system ID are cleared
\* before reconstruction, and after the call each stream, unit and stream-impact-item ID is
\* registered exactly once.
C9_RebuildClearsEarlierBuild ==
  /\ (fcall.fn = "create_system" /\ fpc = 3) =>
       \A i \in ObjsWithID(fsObjs[mainfs].ID) \ {mainfs} :
         /\ fsObjs[i].reg = EmptyRegistry
         /\ <<"eff_fugitive_ch4", 0>> \notin DOMAIN lcaItems
  /\ (fpc = 0 /\ lastRet.fn = "create_system" /\ lastRet.ok
        /\ Cardinality(ObjsWithID(lastRet.sys_ID)) >= 2) =>
       /\ \A k \in DOMAIN lcaItems : lcaItems[k] = 1
       /\ \A key \in DOMAIN fsObjs[mainfs].reg : Registrations(lastRet.sys_ID, key) = 1

(***************************************************************************)
(* Claims about geospatial_analysis.py (checked under SpecGeo)             *)
(***************************************************************************)
\* C5 (as stated): in the per-facility loops a facility whose simulation or evaluation
\* raises is recorded as a failed row, the loop goes on with the next facility, and the
\* rows computed so far are kept: the cell ends with a result for every facility and
\* writes them.
C5_FacilityFailureIsRecorded ==
  (cell \in {"abatement", "uncertainty"} /\ gpc = "done") =>
    /\ gfail = ""
    /\ gi = Len(left) + 1
    /\ \A i \in 1..Len(left) : \E j \in 1..Len(merged) : merged[j].key = left[i]
    /\ exported = merged

\* C6 (as stated): in the driving-distance loop every failure of a lookup is caught for
\* that record alone and the loop looks up every remaining record: once the merge has
\* passed its assertions the cell ends with no record left to look up.
C6_LookupFailureIsCaught ==
  (cell = "distance" /\ gpc = "done" /\ gfail # "AssertionError") =>
    /\ gfail = ""
    /\ without_distance = {}
    /\ exported = dropna(merged)

MergeCells == {"distance", "integrate", "regional"}

\* C7 (as stated): every merge is preceded by assertions that neither input holds a
\* duplicate key, so a merged table has as many rows as its left table.
C7_MergeInputsAsserted ==
  (cell \in MergeCells /\ gpc \notin {"assert", "merge"}
     /\ gfail # "AssertionError") =>
    /\ duplicated_sum(left) = 0
    /\ duplicated_sum(KeysOf(right)) = 0
    /\ Len(merged) = Len(left)

(***************************************************************************)
(* Claims about aliases (checked under SpecConstruction)                   *)
(***************************************************************************)
\* C11: once sys_PSA is assembled every unit of its path and of its facilities is a
\* registered alias, and every registered alias names a unit the script has constructed;
\* when create_system_A is about to return or has returned, the alias registered right
\* after each unit and after the system is held by the flowsheet.
C11_UnitsAddressableByAlias ==
  /\ path # <<>> => Range(path) \cup Range(sys_PSA_facilities) \subseteq aliases
  /\ \A a \in aliases : IsGlobalUnit(a)
  /\ ((fcall.fn = "create_system_A" /\ fpc = Len(create_system_A))
        \/ (fpc = 0 /\ lastRet.fn = "create_system_A" /\ lastRet.ok)) =>
       \A i \in {j \in 1..Len(create_system_A) : create_system_A[j].op \in {"Unit", "System"}} :
         /\ <<KindOf(create_system_A[i].op), create_system_A[i].ID>> \in DOMAIN fsObjs[mainfs].reg
         /\ create_system_A[i + 1].op = "register_alias"
         /\ <<"alias", create_system_A[i + 1].ID>> \in DOMAIN fsObjs[mainfs].reg

\* sys_PSA is assembled with the alias of an auxiliary unit registered, and
\* create_system_A has returned with the alias of its system registered
C11_Witness ==
  /\ path # <<>>
  /\ "HTL_hx" \in aliases /\ "CHP" \in aliases
  /\ fpc = 0 /\ lastRet.fn = "create_system_A" /\ lastRet.ok
  /\ <<"alias", "sys">> \in DOMAIN fsObjs[mainfs].reg
  /\ <<"alias", "D1">> \in DOMAIN fsObjs[mainfs].reg

(***************************************************************************)
(* Claims about baselines (checked under SpecPSA)                          *)
(***************************************************************************)
\* C12: the declared baseline of every registered parameter equals the value the
\* construction statements gave to each of its targets, so that calling every setter
\* with its baseline leaves the targets as constructed.
C12_BaselineIsConstructedValue ==
  \A p \in 1..nparams :
    SetterOf(p) \in DOMAIN baseline =>
      \A t \in Targets(p) :
        /\ t \in DOMAIN as_constructed
        /\ attrs[t] # None
        /\ as_constructed[t] = baseline[SetterOf(p)]

C14_TableAndSheets ==
  /\ loaded > 0 =>
       /\ Len(table.rows) = NSamples
       /\ Len(table.columns) = nparams + nmetrics
       /\ nparams = NParams /\ nmetrics = Len(Metrics)
       /\ \A r \in Range(doneRows) : Len(table.rows[r]) = nmetrics
  /\ DOMAIN sheets # {} =>
       /\ Len(doneRows) = NSamples
       /\ DOMAIN sheets = {"Parameters", "Results", "Percentiles"}
       /\ sheets["Parameters"].columns \o sheets["Results"].columns = table.columns
       /\ Range(sheets["Parameters"].columns) \cap Range(sheets["Results"].columns) = {}
       /\ sheets["Parameters"].columns = [p \in 1..nparams |-> <<"parameter", p>>]
       /\ sheets["Results"].columns = [m \in 1..nmetrics |-> <<"metric", m>>]
       /\ Len(sheets["Parameters"].index) = NSamples
       /\ Len(sheets["Results"].index) = NSamples
       /\ sheets["Percentiles"].index = <<0, 5, 25, 50, 75, 95, 100>>
       /\ sheets["Percentiles"].columns = sheets["Results"].columns

\* organize_results has run on a table whose rows are all evaluated
C14_Witness ==
  /\ pc = Len(Script) + 1
  /\ DOMAIN sheets # {}
  /\ Len(doneRows) = NSamples
  /\ Len(sheets["Results"].columns) = Len(Metrics)
  /\ Len(sheets["Parameters"].columns) = NParams

C19_ElementBalancesClose ==
  \A r \in Range(doneRows) :
    LET v(name) == table.rows[r][IndexOf(Metrics, name)]
    IN  /\ v("HT_gasoline_C") + v("HT_diesel_C") + v("HT_heavy_oil_C") + v("HT_gas_C")
              + v("HT_ww_C") = v("biocrude_C")
        /\ v("extracted_P") + v("residual_P") = v("biochar_P")

\* two rows were evaluated on different simulated states, each with carbon in every
\* product of the hydrotreating block and phosphorus in both outlets of the extraction
C19_Witness ==
  /\ Len(doneRows) = 2
  /\ table.rows[doneRows[1]] # table.rows[doneRows[2]]
  /\ \A r \in Range(doneRows) :
       \A name \in {"HT_gasoline_C", "HT_diesel_C", "HT_heavy_oil_C", "HT_gas_C", "HT_ww_C",
                     "extracted_P", "residual_P"} :
         table.rows[r][IndexOf(Metrics, name)] > 0

C20_InvalidConfigurationFails ==
  (fcall.fn = "create_system"
     /\ (fcall.reactor_type \notin reactor_classes \/ fcall.n_stages \notin Stages
           \/ fcall.gas_extraction \notin GasExtractions)) =>
    fpc <= 1

(***************************************************************************)
(* Claims about the loader of exposan.cas (checked under SpecCAS)          *)
(***************************************************************************)
\* C17: a component set is bound exactly when _components_loaded is set and a system
\* exactly when _system_loaded is set, and every sys.simulate() of load() runs a system
\* that was built on the component set bound to `components` at that time.
C17_SystemBuiltOnCurrentComponents ==
  /\ _components_loaded = (components # 0)
  /\ _system_loaded = (sys # 0)
  /\ simulated[1] = simulated[2]


(***************************************************************************)
(* Claims about the ambient component set (checked under SpecFS)           *)
(***************************************************************************)
\* C21: whenever create_system_A is at a statement that constructs a stream or a unit,
\* the ambient component set is the one of co2_sorbent, whatever was called before.
C21_AmbientComponentsAreOwn ==
  (fcall.fn = "create_system_A" /\ (Running("WasteStream") \/ Running("Unit"))) =>
    thermo = "co2_sorbent"

(***************************************************************************)
(* Claims about what metab create_system builds (checked under SpecMetab)  *)
(***************************************************************************)
\* C22: when create_system is about to return, it has built exactly n_stages reactors
\* wired as the flags select: one stage gives the path (R1) with inf -> R1 -> (bg, eff)
\* whatever gas_extraction is; two stages with 'M' give the path (R1, DMs, R2), DMs fed
\* by R1's second outlet and returning its liquid to R1's second inlet, R2 fed by R1's
\* third outlet; two stages otherwise give the path (R1, R2) with R1's headspace
\* pressure fixed unless gas_extraction is 'P'.  In every case the last reactor's
\* effluent is eff, only the last reactor carries the iron sponge and the gas holder,
\* and the second system is (sys, DMe) with DMe fed by eff.
C22_TopologyFollowsFlags ==
  (Running("return") /\ fcall.fn = "create_system") =>
    LET fs == fsObjs[mainfs]
        u == fs.unit
        sid == sys_ID(fcall.reactor_type, fcall.n_stages, fcall.gas_extraction)
        last == IF fcall.n_stages = 1 THEN "R1" ELSE "R2"
    IN  /\ Cardinality(DOMAIN u \ {"DMs", "DMe"}) = fcall.n_stages
        /\ fcall.n_stages = 1 =>
             /\ fs.system[sid] = <<"R1">>
             /\ DOMAIN u = {"R1", "DMe"}
             /\ u["R1"].ins = <<S("inf")>>
             /\ u["R1"].outs = <<S("bg"), S("eff")>>
             /\ u["R1"].fixed_headspace_P = "default"
        /\ (fcall.n_stages = 2 /\ fcall.gas_extraction = "M") =>
             /\ fs.system[sid] = <<"R1", "DMs", "R2">>
             /\ DOMAIN u = {"R1", "DMs", "R2", "DMe"}
             /\ u["DMs"].ins = <<O("R1", 1)>>
             /\ u["DMs"].outs[2] = <<"i", "R1", 1>>
             /\ Len(u["R1"].ins) = 2
             /\ u["R2"].ins = <<O("R1", 2)>>
        /\ (fcall.n_stages = 2 /\ fcall.gas_extraction # "M") =>
             /\ fs.system[sid] = <<"R1", "R2">>
             /\ DOMAIN u = {"R1", "R2", "DMe"}
             /\ u["R2"].ins = <<O("R1", 1)>>
             /\ (u["R1"].fixed_headspace_P = "False") = (fcall.gas_extraction = "P")
             /\ (u["R1"].fixed_headspace_P = "True") = (fcall.gas_extraction # "P")
        /\ u[last].outs[2] = S("eff")
        /\ \A k \in DOMAIN u : u[k].equipment = IF k = last THEN {"IST", "GH"} ELSE {}
        /\ fs.system[sid \o "_edg"] = <<sid, "DMe">>
        /\ u["DMe"].ins = <<S("eff")>>

\* a two-stage fluidized-bed build with membrane gas extraction is complete
C22_Witness ==
  /\ Running("return") /\ fcall.fn = "create_system"
  /\ fcall.n_stages = 2 /\ fcall.gas_extraction = "M" /\ fcall.reactor_type = "FB"
  /\ DOMAIN fsObjs[mainfs].unit = {"R1", "DMs", "R2", "DMe"}
  /\ DOMAIN fsObjs[mainfs].system = {"FB2M", "FB2M_edg"}

\* C23: when create_system is about to return, the liquid volumes of the reactors sum
\* to Q*tot_HRT (one reactor with all of it, or R1 with 1/12 and R2 with 11/12), every
\* reactor's gas volume is a tenth of its liquid volume, and every reactor's initial
\* concentrations are C0_bulk once for a UASB, n_layer+1 times for a fluidized bed and
\* (n_layer+1)*n_cstr times for a packed bed.  Volumes are in 1/120 of the unit of
\* Q*tot_HRT.
C23_VolumesAndInitialConcentrations ==
  (Running("return") /\ fcall.fn = "create_system") =>
    LET u == fsObjs[mainfs].unit
        total == 120 * fcall.Q * fcall.tot_HRT
        reactors == DOMAIN u \ {"DMs", "DMe"}
    IN  /\ fcall.n_stages = 1 => u["R1"].V_liq = total
        /\ fcall.n_stages = 2 =>
             /\ 12 * u["R1"].V_liq = total
             /\ 12 * u["R2"].V_liq = 11 * total
             /\ u["R1"].V_liq + u["R2"].V_liq = total
        /\ \A k \in reactors :
             /\ 10 * u[k].V_gas = u[k].V_liq
             /\ fcall.reactor_type = "UASB" => u[k]._concs = 1
             /\ fcall.reactor_type = "FB" => u[k]._concs = fcall.n_layer + 1
             /\ fcall.reactor_type = "PB" => u[k]._concs = (fcall.n_layer + 1) * fcall.n_cstr

\* a two-stage packed-bed build (n_layer 2, n_cstr 3) of the feed Q = 8, tot_HRT = 6
C23_Witness ==
  /\ Running("return") /\ fcall.fn = "create_system"
  /\ fcall.n_stages = 2 /\ fcall.reactor_type = "PB" /\ fcall.n_cstr = 3
  /\ fcall.Q = 8 /\ fcall.tot_HRT = 6
  /\ fsObjs[mainfs].unit["R2"]._concs = 9
  /\ fsObjs[mainfs].unit["R2"].V_liq = 5280

(***************************************************************************)
(* Claims about interface/system.py (checked under SpecInterface)          *)
(***************************************************************************)
\* C24: J1 and AD1 are constructed while the ADM1 components are ambient and M1 after
\* the ASM1 components are ambient again; once the script has built the combined
\* system, RWW has M1 as its only sink and is no inlet of A1, the second inlet of A1 is
\* the outlet of M1, and the path is the units of the bsm1 system followed by J1, AD1,
\* J2, M1.
C24_InterfaceWiring ==
  /\ ipc \in {27, 28, 31} => thermo = "adm1"
  /\ "J1" \in DOMAIN created => created["J1"] = "adm1"
  /\ "AD1" \in DOMAIN created => created["AD1"] = "adm1"
  /\ "M1" \in DOMAIN created => created["M1"] = "asm1" /\ thermo = "asm1"
  /\ ipc = 43 =>
       /\ {"J1", "AD1", "M1"} \subseteq DOMAIN created
       /\ isink["RWW"] = {"M1"}
       /\ \A i \in DOMAIN A1_ins : A1_ins[i] # "RWW"
       /\ A1_ins[2] = "M1.outs[0]"
       /\ isink["M1.outs[0]"] = {"A1"}
       /\ Len(ipath) = Len(bsm1_units) + 4
       /\ SubSeq(ipath, 1, Len(bsm1_units)) = bsm1_units
       /\ SubSeq(ipath, Len(bsm1_units) + 1, Len(ipath)) = <<"J1", "AD1", "J2", "M1">>
       /\ {"A1", "C1"} \subseteq Range(bsm1_units)

\* the script ran to its end on a bsm1 system of six units whose A1 has three inlets
C24_Witness ==
  /\ ipc = 43
  /\ Len(ipath) = 10
  /\ Len(A1_ins) = 3
  /\ isink["RWW"] = {"M1"}
  /\ created["M1"] = "asm1"

(***************************************************************************)
(* Claims about the distributions of the parameters (checked under SpecPSA)*)
(***************************************************************************)
\* C25: every parameter registered on the model has its baseline inside the support of
\* its distribution: between the bounds of a uniform one, at the mode of a triangular
\* one (which lies between its bounds), at the mean of a normal one.  For the parameter
\* of a characterisation factor this holds whatever the sign of the factor, and its
\* lower bound is strictly below its upper bound unless the factor is zero.
C25_BaselineInSupport ==
  LET InSupport(d) ==
        /\ d.shape = "Uniform" => d.args[1] <= d.baseline /\ d.baseline <= d.args[2]
        /\ d.shape = "Triangle" =>
             d.args[1] <= d.args[2] /\ d.args[2] <= d.args[3] /\ d.args[2] = d.baseline
        /\ d.shape = "Normal" => d.args[1] = d.baseline
  IN  \A p \in 1..nparams :
        IF p <= NScalar
        THEN distribution[p].setter = SetterOf(p) /\ InSupport(distribution[p])
        ELSE \A x \in CFValues :
               /\ InSupport(LCA_distribution(x))
               /\ LCA_distribution(x).shape = "Uniform"
               /\ x # 0 => LCA_distribution(x).args[1] < LCA_distribution(x).args[2]

\* every parameter is registered, the last one being that of a characterisation factor,
\* and a negative factor has its bounds in ascending order
C25_Witness ==
  /\ nparams = NParams
  /\ NParams > NScalar
  /\ NScalar = Len(distribution)
  /\ \E x \in CFValues : x < 0 /\ LCA_distribution(x).args = <<11 * x, 9 * x>>

\* C26: in the distance cell the mapping API is queried only for the first row, from the
\* cursor on, whose real_distance_km is missing after the merge, and the cursor then moves
\* past that row, so no row is queried twice; a query changes no other row; a row that had
\* a distance after the merge keeps it; every exported row has a distance, and the
\* exported rows are the merged rows that have one.
C26_LookupOnlyMissingOnce ==
  /\ []((cell = "distance" /\ gpc \in {"loop", "done"} /\ merged # << >>) =>
          /\ Len(merged) = Len(merge_left(left, right))
          /\ \A i \in 1..Len(merged) :
                merge_left(left, right)[i].val = "old" => merged[i] = merge_left(left, right)[i])
  /\ []((cell = "distance" /\ gpc = "done" /\ gfail = "" /\ merged # << >>) =>
          /\ \A k \in 1..Len(exported) : exported[k].val # NaN
          /\ Len(exported) = Cardinality({i \in 1..Len(merged) : merged[i].val # NaN}))
  /\ [][(InDistanceLoop /\ (gi' # gi \/ merged' # merged \/ gfail' # gfail)
            /\ ~(gpc' = "done" /\ gfail' = "")) =>
          \E i \in 1..Len(merged) :
            /\ i >= gi
            /\ merged[i].val = NaN
            /\ \A j \in gi..(i - 1) : merged[j].val # NaN
            /\ (gpc' = "loop" => gi' = i + 1)
            /\ Len(merged') = Len(merged)
            /\ \A j \in 1..Len(merged) : j # i => merged'[j] = merged[j]]_vars

\* the export of a table with a distance kept from the merge and one the loop looked up
C26_Witness ==
  /\ cell = "distance" /\ gpc = "done" /\ gfail = ""
  /\ \E i, j \in 1..Len(exported) : exported[i].val = "old" /\ exported[j].val = "new"
  /\ gi = Len(merged) + 1

\* C27: in each of the three places that assign WRRF_PADD the five state lists are
\* pairwise disjoint; every one of the 48 contiguous states and DC is in one of them; and
\* the region a place assigns to a state is the region the other two places assign to it.
C27_OnePADDPerState ==
  (cell \in PADDCells /\ gpc = "done") =>
    /\ \A lists \in {PADD_distance, PADD_regional, PADD_uncertainty} :
         \A j, k \in 1..Len(lists) : j # k => lists[j].isin \cap lists[k].isin = {}
    /\ \A i \in 1..Len(merged) :
         /\ merged[i].key \in StateCodes \ {"AK", "HI", "PR"} => merged[i].val \in 1..5
         /\ merged[i].val = WRRF_PADD(PADD_distance, merged[i].key)
         /\ merged[i].val = WRRF_PADD(PADD_regional, merged[i].key)
         /\ merged[i].val = WRRF_PADD(PADD_uncertainty, merged[i].key)

\* the regional analysis has put a facility of New Mexico in PADD 3
C27_Witness ==
  /\ cell = "PADD_regional" /\ gpc = "done"
  /\ Len(merged) = 1 /\ merged[1].key = "NM" /\ merged[1].val = 3

\* C28: a run of the cumulative-capacity cell ends with a table written, whatever its
\* input; the table has exactly one row per refinery site_id; the row of a refinery that
\* is the nearest refinery of no facility is all zeros; every other row holds, at each
\* distance, the summed flow of the refinery's facilities within that distance, which
\* does not decrease with the distance.
C28_OneRowPerRefinery ==
  (cell = "capacity" /\ gpc = "done") =>
    /\ gfail = ""
    /\ Len(exported) = Len(right)
    /\ \A s \in Range(right) :
         \E k \in 1..Len(exported) :
           /\ exported[k].site_id = s
           /\ \A j \in 1..Len(exported) : exported[j].site_id = s => j = k
           /\ \A d \in DOMAIN exported[k].MGD :
                /\ exported[k].MGD[d] = groupby_sum(left, s, d)
                /\ \A e \in DOMAIN exported[k].MGD : d <= e =>
                     exported[k].MGD[d] <= exported[k].MGD[e]


\* C29: the filtered decarbonization_result holds exactly the facilities whose CO2
\* reduction is strictly positive and whose NPV is greater than or equal to zero, in
\* the order of the integrated table; a facility whose CO2 reduction is zero, negative
\* or missing is not in it, whatever its NPV.
C29_KeptIffPositiveReductionAndNonnegativeNPV ==
  cell = "decarbonization" =>
    /\ exported = SelectSeq(merged, LAMBDA r : r.CO2_reduction = "pos" /\ r.NPV = "nonneg")
    /\ \A k \in 1..Len(exported) : exported[k].CO2_reduction = "pos"

\* of three facilities one is kept; one with a positive reduction and a negative NPV,
\* and one with a non-positive reduction and a non-negative NPV, are filtered out
C29_Witness ==
  /\ cell = "decarbonization"
  /\ Len(merged) >= 2 /\ Len(exported) = 1
  /\ \E i, j \in 1..Len(merged) :
       /\ merged[i].CO2_reduction = "pos" /\ merged[i].NPV = "nonneg"
       /\ merged[j].CO2_reduction \in {"zero", "neg"} /\ merged[j].NPV = "nonneg"

\* C30: an access to a name the cas module does not define never yields a value: in
\* every load state it raises AttributeError, with the message that asks for load()
\* while the components or the system are not loaded.
C30_UndefinedNameRaises ==
  /\ cas_attr \in {"no access", "AttributeError: not yet loaded", "AttributeError"}
  /\ (cas_attr # "no access" /\ (~_components_loaded \/ ~_system_loaded)) =>
       cas_attr = "AttributeError: not yet loaded"
=============================================================================
